---- MODULE Spec2Model ----
(***************************************************************************)
(* GETOLS: the ZTE OLT command automation engine (ZTEBaseAdapter and its   *)
(* variants, app/adapters/zte) and the read-only SNMP client (SNMPManager, *)
(* app/snmp).                                                              *)
(*                                                                         *)
(* Text is a sequence of tokens.  A token is a record [w, k]: w is the     *)
(* piece of text (a word, a prompt character, a blank, a line break or the *)
(* echo of a command), k is bookkeeping that names the command of the      *)
(* running operation the device emitted it for (0: unsolicited output, or  *)
(* output of an earlier operation).                                        *)
(***************************************************************************)
EXTENDS Integers, Sequences, FiniteSets, TLC

\* ------------------------------------------------------------------ bounds
\* longest command list a caller hands to execute_commands
MaxCmds == 3
\* largest number of times, in one run, that the environment departs from the
\* plain course (a device answer other than echo, text and prompt in one
\* chunk; a failed handshake; unsolicited output; a closed connection)
MaxFaults == 1
\* largest amount of unread input (in tokens) to which the device still adds
\* unsolicited output
MaxPending == 2
\* largest usage count up to which a provisioning template is still used
MaxUsage == 1

\* --------------------------------------------------------------- variables
VARIABLES
    adapter,           \* the adapter's class and its host, port, credentials
                       \* and timeouts; NoAdapter before one is constructed
    args,              \* the arguments of the operation in progress (or of
                       \* the last one finished)
    connection_type,   \* "ssh" or "telnet" (ZTEBaseAdapter.connection_type)
    _connected,        \* ZTEBaseAdapter._connected
    _ssh_client,       \* ZTEBaseAdapter._ssh_client is not None
    _ssh_channel,      \* ZTEBaseAdapter._ssh_channel is not None
    _telnet_client,    \* ZTEBaseAdapter._telnet_client is not None
    link,              \* the connection under the handles: "down", "up", "eof"
    pending,           \* input received from the device and not yet read
    pc,                \* "idle", or "running" inside a command sequence
    op,                \* the operation in progress, or the last one finished
    cmds,              \* the command list of that operation
    results,           \* the CommandResults obtained so far
    wire,              \* the commands written to the transport by that operation
    ret,               \* what the operation returned
    raised,            \* the operation ended by raising
    faults,            \* departures of the environment from the plain course
    last_read,         \* the last prompt-synchronised read: did a prompt
                       \* pattern match, and the buffer it had accumulated
    was_ready,         \* _connected when the operation was called
    snmp_tools,        \* the SNMP utilities installed on the host
    manager,           \* the SNMPManager's fields
    snmp_op,           \* the last SNMPManager operation
    snmp_ret,          \* what it returned
    snmp_out,          \* what the utility printed for a get, walk or get_bulk
    spawned,           \* the subprocesses it tried to start, in order
    exits,             \* how each of them ended, in the same order
    olts,              \* the rows of table "olts", by id
    onus,              \* the rows of table "onus"
    templates,         \* the rows of table "provisioning_templates", by id
    svc_pc,            \* "idle", or the ONUService operation that is inside
                       \* its "with adapter:" block
    svc_op,            \* the last ONUService operation called
    svc_args,          \* its arguments
    svc_opened,        \* whether it constructed an adapter and entered
                       \* "with adapter:"
    svc_ret            \* what it returned

session_vars == <<adapter, connection_type, _connected, _ssh_client, _ssh_channel,
                  _telnet_client, link, pending>>
call_vars == <<args, pc, op, cmds, results, wire, ret, raised, faults, last_read,
              was_ready>>
snmp_vars == <<snmp_tools, manager, snmp_op, snmp_ret, snmp_out, spawned, exits>>
service_vars == <<olts, onus, templates, svc_pc, svc_op, svc_args, svc_opened, svc_ret>>
vars == <<session_vars, call_vars, snmp_vars, service_vars>>

\* ------------------------------------------------------------------- text
Whitespace == {" ", "\n"}

Tok(w, k) == [w |-> w, k |-> k]

Words(t) == [i \in 1..Len(t) |-> t[i].w]

RECURSIVE Flatten(_)
Flatten(chunks) ==
    IF chunks = <<>> THEN <<>> ELSE Head(chunks) \o Flatten(Tail(chunks))

\* the four prompt patterns, each "<mode>[chars]\s*$"
PROMPT_PATTERNS ==
    << [mode |-> "",           chars |-> {">", "#"}],
       [mode |-> "(config)",   chars |-> {"#"}],
       [mode |-> "(gpon-olt)", chars |-> {"#"}],
       [mode |-> "(gpon-onu)", chars |-> {"#"}] >>

\* re.search(pattern, output) for one prompt pattern
re_search_prompt(p, ws) ==
    \E i \in 1..Len(ws) :
        /\ ws[i] \in p.chars
        /\ \A j \in (i+1)..Len(ws) : ws[j] \in Whitespace
        /\ p.mode # "" => (i > 1 /\ ws[i-1] = p.mode)

MatchesPrompt(t) ==
    \E n \in 1..Len(PROMPT_PATTERNS) : re_search_prompt(PROMPT_PATTERNS[n], Words(t))

\* str.strip()
RECURSIVE LStrip(_)
LStrip(t) ==
    IF t # <<>> /\ Head(t).w \in Whitespace THEN LStrip(Tail(t)) ELSE t

RECURSIVE RStrip(_)
RStrip(t) ==
    IF t # <<>> /\ t[Len(t)].w \in Whitespace
    THEN RStrip(SubSeq(t, 1, Len(t) - 1)) ELSE t

Strip(t) == RStrip(LStrip(t))

\* output.split("\n")[0], and what follows its line break
FirstBreak(t) ==
    IF \E i \in 1..Len(t) : t[i].w = "\n"
    THEN CHOOSE i \in 1..Len(t) :
             t[i].w = "\n" /\ \A j \in 1..(i-1) : t[j].w # "\n"
    ELSE Len(t) + 1

FirstLine(t) == SubSeq(t, 1, FirstBreak(t) - 1)

AfterFirstLine(t) == SubSeq(t, FirstBreak(t) + 1, Len(t))

\* echo stripping that drops the first line whatever it holds
StripEcho_always(command, t) == Strip(AfterFirstLine(t))

\* lines = output.split("\n"); drop lines[0] if the command occurs in it;
\* "\n".join(lines).strip()
StripEcho(command, t) ==
    IF \E i \in 1..Len(FirstLine(t)) : FirstLine(t)[i].w = command
    THEN Strip(AfterFirstLine(t))
    ELSE Strip(t)

\* ------------------------------------------------------------- the device
\* What the device writes in one piece.  "ECHO" stands for the echo of the
\* command it answers.
PlainChunk == <<"ECHO", "\n", "ok", "#">>

UnsolicitedChunks == { <<"ok">>, <<"ok", "#">> }

\* A reaction of the device to one command (or to the login): the chunks it
\* answers with, and whether it closes the connection after them.
Reaction(chunks, close) == [chunks |-> chunks, close |-> close]

Reactions ==
    { Reaction(<<PlainChunk>>, FALSE),                 \* the plain answer
      Reaction(<<<<"Error", "#">>>>, FALSE),           \* in-band error
      Reaction(<<<<"(config)", "#", " ">>>>, FALSE),   \* mode prompt only
      Reaction(<<>>, FALSE),                           \* silence
      Reaction(<<<<"ok">>>>, FALSE),                   \* text, never a prompt
      Reaction(<<<<"ok">>, PlainChunk>>, FALSE),       \* answer in two chunks
      Reaction(<<PlainChunk, <<"ok", "#">>>>, FALSE),  \* output after a prompt
      Reaction(<<>>, TRUE),                            \* closes at once
      Reaction(<<<<"ok">>>>, TRUE),                    \* text, then closes
      Reaction(<<PlainChunk>>, TRUE) }                 \* answers, then closes

PlainReaction == [chunks |-> <<PlainChunk>>, close |-> FALSE]

Deliver(chunks, k, command) ==
    [n \in 1..Len(chunks) |->
        [i \in 1..Len(chunks[n]) |->
            Tok(IF chunks[n][i] = "ECHO" THEN command ELSE chunks[n][i], k)]]

\* ------------------------------------------------------------ the session
\* The adapter's connection fields as one record.
Sess(c, cl, ch, t, l, p) ==
    [connected |-> c, ssh_client |-> cl, ssh_channel |-> ch,
     telnet_client |-> t, link |-> l, pending |-> p]

Self == Sess(_connected, _ssh_client, _ssh_channel, _telnet_client, link, pending)

NoRead == [done |-> FALSE, matched |-> FALSE, buf |-> <<>>]

CommandResult(success, output, error) ==
    [success |-> success, output |-> output, error |-> error]

\* The loop shared by both reads: accumulate chunk after chunk, test the
\* buffer after each one, stop at the first match.
RECURSIVE ReadLoop(_, _)
ReadLoop(buf, chunks) ==
    IF chunks = <<>>
    THEN [matched |-> FALSE, out |-> buf, rest |-> <<>>]
    ELSE LET b == buf \o Head(chunks)
         IN  IF MatchesPrompt(b)
             THEN [matched |-> TRUE, out |-> b, rest |-> Tail(chunks)]
             ELSE ReadLoop(b, Tail(chunks))

\* _read_until_prompt: no match before command_timeout raises TimeoutError
_read_until_prompt(chunks) ==
    LET r == ReadLoop(<<>>, chunks)
    IN  IF r.matched
        THEN [exc |-> "None", out |-> r.out, rest |-> Flatten(r.rest),
              read |-> [done |-> TRUE, matched |-> TRUE, buf |-> r.out]]
        ELSE [exc |-> "Command timeout", out |-> <<>>, rest |-> <<>>,
              read |-> [done |-> TRUE, matched |-> FALSE, buf |-> r.out]]

\* _read_until_prompt_telnet: Telnet.expect returns (-1, None, text) when the
\* timeout passes without a match, and raises EOFError only when the
\* connection is closed and no text was read
_read_until_prompt_telnet(chunks, eof) ==
    LET r == ReadLoop(<<>>, chunks)
    IN  IF r.matched
        THEN [exc |-> "None", out |-> r.out, rest |-> Flatten(r.rest),
              read |-> [done |-> TRUE, matched |-> TRUE, buf |-> r.out]]
        ELSE IF r.out = <<>> /\ eof
        THEN [exc |-> "Connection closed by OLT", out |-> <<>>, rest |-> <<>>,
              read |-> [done |-> TRUE, matched |-> FALSE, buf |-> r.out]]
        ELSE [exc |-> "None", out |-> r.out, rest |-> <<>>,
              read |-> [done |-> TRUE, matched |-> FALSE, buf |-> r.out]]

\* what reaches the session after a command was written
Arriving(s, command, k, rx) ==
    IF s.link = "up" THEN Deliver(rx.chunks, k, command) ELSE <<>>

LinkAfter(s, rx) == IF s.link = "up" /\ rx.close THEN "eof" ELSE s.link

\* _execute_ssh.  sendok: whether a write on a closed connection goes
\* unnoticed (it raises otherwise).
_execute_ssh(s, command, k, rx, sendok) ==
    IF ~s.ssh_channel
    THEN [exc |-> "SSH channel not available", output |-> <<>>, s |-> s,
          sent |-> FALSE, read |-> NoRead]
    ELSE IF s.link # "up" /\ ~sendok
    THEN [exc |-> "Socket is closed", output |-> <<>>,
          s |-> [s EXCEPT !.pending = <<>>], sent |-> FALSE, read |-> NoRead]
    ELSE LET rd == _read_until_prompt(Arriving(s, command, k, rx))
         IN  [exc |-> rd.exc,
              output |-> StripEcho(command, rd.out),
              s |-> [s EXCEPT !.pending = rd.rest, !.link = LinkAfter(s, rx)],
              sent |-> TRUE, read |-> rd.read]

\* _execute_telnet.  merge: whether the first chunk of the answer is read
\* together with the input that was already waiting.
_execute_telnet(s, command, k, rx, sendok, merge) ==
    IF ~s.telnet_client
    THEN [exc |-> "Telnet client not available", output |-> <<>>, s |-> s,
          sent |-> FALSE, read |-> NoRead]
    ELSE IF s.link # "up" /\ ~sendok
    THEN [exc |-> "Broken pipe", output |-> <<>>, s |-> s,
          sent |-> FALSE, read |-> NoRead]
    ELSE LET arriving == Arriving(s, command, k, rx)
             chunks == IF s.pending = <<>> THEN arriving
                       ELSE IF merge /\ arriving # <<>>
                       THEN <<s.pending \o Head(arriving)>> \o Tail(arriving)
                       ELSE <<s.pending>> \o arriving
             rd == _read_until_prompt_telnet(chunks, LinkAfter(s, rx) = "eof")
         IN  [exc |-> rd.exc,
              output |-> StripEcho(command, rd.out),
              s |-> [s EXCEPT !.pending = rd.rest, !.link = LinkAfter(s, rx)],
              sent |-> TRUE, read |-> rd.read]

\* execute_command without its "not connected" guard
execute_command_unguarded(s, command, k, rx, sendok, merge) ==
    LET x == IF connection_type = "ssh"
             THEN _execute_ssh(s, command, k, rx, sendok)
             ELSE _execute_telnet(s, command, k, rx, sendok, merge)
    IN  [result |-> IF x.exc = "None"
                    THEN CommandResult(TRUE, x.output, "None")
                    ELSE CommandResult(FALSE, <<>>, x.exc),
         s |-> x.s, sent |-> x.sent, read |-> x.read]

\* execute_command
execute_command(s, command, k, rx, sendok, merge) ==
    IF ~s.connected
    THEN [result |-> CommandResult(FALSE, <<>>, "Not connected to OLT"),
          s |-> s, sent |-> FALSE, read |-> NoRead]
    ELSE LET x == IF connection_type = "ssh"
                  THEN _execute_ssh(s, command, k, rx, sendok)
                  ELSE _execute_telnet(s, command, k, rx, sendok, merge)
         IN  [result |-> IF x.exc = "None"
                         THEN CommandResult(TRUE, x.output, "None")
                         ELSE CommandResult(FALSE, <<>>, x.exc),
              s |-> x.s, sent |-> x.sent, read |-> x.read]

\* _connect_ssh.  h: how the SSH handshake ends; rx: what the device prints
\* after the shell is opened.
_connect_ssh(s, h, rx) ==
    LET s1 == [s EXCEPT !.ssh_client = TRUE]
    IN  IF h = "auth"
        THEN [exc |-> "Authentication failed", s |-> s1, read |-> NoRead]
        ELSE IF h = "ssh"
        THEN [exc |-> "SSH error", s |-> s1, read |-> NoRead]
        ELSE IF h = "timeout"
        THEN [exc |-> "Connection timeout", s |-> s1, read |-> NoRead]
        ELSE LET rd == _read_until_prompt(Deliver(rx.chunks, 0, "ECHO"))
                 s2 == [s1 EXCEPT !.ssh_channel = TRUE,
                                  !.link = IF rx.close THEN "eof" ELSE "up",
                                  !.pending = rd.rest]
             IN  IF rd.exc = "None"
                 THEN [exc |-> "None", s |-> [s2 EXCEPT !.connected = TRUE],
                       read |-> rd.read]
                 ELSE [exc |-> "Connection error: " \o rd.exc, s |-> s2,
                       read |-> rd.read]

\* _connect_telnet.  h: how opening the connection ends; rx: what the device
\* prints after the password was written.
_connect_telnet(s, h, rx) ==
    IF h = "timeout"
    THEN [exc |-> "Connection timeout", s |-> s, read |-> NoRead]
    ELSE IF h = "refused"
    THEN [exc |-> "Telnet error: Connection refused", s |-> s, read |-> NoRead]
    ELSE LET rd == _read_until_prompt_telnet(Deliver(rx.chunks, 0, "ECHO"), rx.close)
             s1 == [s EXCEPT !.telnet_client = TRUE,
                             !.link = IF rx.close THEN "eof" ELSE "up",
                             !.pending = rd.rest]
         IN  IF rd.exc = "None"
             THEN [exc |-> "None", s |-> [s1 EXCEPT !.connected = TRUE],
                   read |-> rd.read]
             ELSE [exc |-> "Telnet error: " \o rd.exc, s |-> s1, read |-> rd.read]

HandshakeOutcomes ==
    IF connection_type = "ssh" THEN {"ok", "auth", "ssh", "timeout"}
    ELSE {"ok", "timeout", "refused"}

\* connect: any exception clears _connected and is raised as ConnectionError
connect(s, h, rx) ==
    LET x == IF connection_type = "ssh" THEN _connect_ssh(s, h, rx)
             ELSE _connect_telnet(s, h, rx)
    IN  IF x.exc = "None"
        THEN [raised |-> FALSE, value |-> TRUE, error |-> "None",
              s |-> x.s, read |-> x.read]
        ELSE [raised |-> TRUE, value |-> FALSE,
              error |-> "Failed to connect to OLT: " \o x.exc,
              s |-> [x.s EXCEPT !.connected = FALSE], read |-> x.read]

\* disconnect without its except and finally clauses
disconnect_unprotected(s, close_raises) ==
    IF close_raises /\ (s.ssh_channel \/ s.ssh_client \/ s.telnet_client)
    THEN [raised |-> TRUE, s |-> s]
    ELSE [raised |-> FALSE,
          s |-> [s EXCEPT !.ssh_client = FALSE, !.ssh_channel = FALSE,
                          !.telnet_client = FALSE, !.connected = FALSE,
                          !.link = "down", !.pending = <<>>]]

\* disconnect.  close_raises: closing an open handle raises.
disconnect(s, close_raises) ==
    [raised |-> FALSE,
     s |-> [s EXCEPT !.ssh_client = FALSE, !.ssh_channel = FALSE,
                     !.telnet_client = FALSE, !.connected = FALSE,
                     !.link = "down", !.pending = <<>>]]

\* what test_connection hands back, given the outcome c of connect, the
\* outcome x of the command and the session left by disconnect
TestOutcome(c, x, left, raised_by_close) ==
    IF c.raised
    THEN [value |-> [success |-> FALSE, error |-> c.error], s |-> left,
          results |-> <<>>, wire |-> <<>>, read |-> c.read,
          raised |-> raised_by_close]
    ELSE [value |-> [success |-> x.result.success, error |-> x.result.error],
          s |-> left, results |-> <<x.result>>,
          wire |-> IF x.sent THEN <<"show version">> ELSE <<>>,
          read |-> x.read, raised |-> raised_by_close]

\* test_connection whose except clause does not disconnect
test_connection_no_cleanup(c, x, close_raises) ==
    TestOutcome(c, x, IF c.raised THEN c.s ELSE disconnect(x.s, close_raises).s,
                FALSE)

\* test_connection, given the outcome c of its connect() and the outcome x
\* of its execute_command("show version"): an exception (only connect
\* raises one) is answered by disconnect and (False, str(e)); otherwise the
\* session is disconnected after the command
test_connection(c, x, close_raises) ==
    TestOutcome(c, x,
                disconnect(IF c.raised THEN c.s ELSE x.s, close_raises).s,
                disconnect(IF c.raised THEN c.s ELSE x.s, close_raises).raised)

\* ------------------------------------------------------- command synthesis
RECURSIVE Join(_)
Join(chars) == IF chars = <<>> THEN "" ELSE Head(chars) \o Join(Tail(chars))

\* name.replace(" ", "_")[:32]
NameLimit == 32

\* the name with its spaces replaced and no limit on its length
SafeName_unlimited(name) ==
    [i \in 1..Len(name) |-> IF name[i] = " " THEN "_" ELSE name[i]]

SafeName(name) ==
    LET replaced == [i \in 1..Len(name) |-> IF name[i] = " " THEN "_" ELSE name[i]]
    IN  SubSeq(replaced, 1, IF Len(replaced) < NameLimit THEN Len(replaced) ELSE NameLimit)

\* a synthesis that numbers the service port as the caller asked
get_register_onu_commands_given_port(pon_port, onu_id, serial_number, name, line_profile, service_profile, vlan, service_port) ==
    << "configure terminal",
       "interface gpon-olt_" \o pon_port,
       "onu " \o ToString(onu_id) \o " type auto sn " \o serial_number,
       "exit",
       "interface gpon-onu_" \o pon_port \o ":" \o ToString(onu_id) >>
    \o (IF name # <<>> THEN << "name " \o Join(SafeName(name)) >> ELSE <<>>)
    \o << "tcont 1 profile " \o line_profile,
          "gemport 1 tcont 1",
          "switchport mode trunk vport 1",
          "service-port " \o ToString(IF service_port = 0 THEN 1 ELSE service_port)
              \o " vport 1 user-vlan " \o ToString(vlan) \o " vlan " \o ToString(vlan),
          "exit",
          "exit" >>

get_register_onu_commands(pon_port, onu_id, serial_number, name, line_profile, service_profile, vlan, service_port) ==
    << "configure terminal",
       "interface gpon-olt_" \o pon_port,
       "onu " \o ToString(onu_id) \o " type auto sn " \o serial_number,
       "exit",
       "interface gpon-onu_" \o pon_port \o ":" \o ToString(onu_id) >>
    \o (IF name # <<>> THEN << "name " \o Join(SafeName(name)) >> ELSE <<>>)
    \o << "tcont 1 profile " \o line_profile,
          "gemport 1 tcont 1",
          "switchport mode trunk vport 1",
          "service-port 1 vport 1 user-vlan " \o ToString(vlan)
              \o " vlan " \o ToString(vlan),
          "exit",
          "exit" >>

\* a delete sequence that leaves the configuration mode open
get_delete_onu_commands_one_exit(pon_port, onu_id) ==
    << "configure terminal",
       "interface gpon-olt_" \o pon_port,
       "no onu " \o ToString(onu_id),
       "exit" >>

get_delete_onu_commands(pon_port, onu_id) ==
    << "configure terminal",
       "interface gpon-olt_" \o pon_port,
       "no onu " \o ToString(onu_id),
       "exit",
       "exit" >>

\* ZTEC320Adapter.get_register_onu_commands
c320_get_register_onu_commands(pon_port, onu_id, serial_number, name, line_profile, service_profile, vlan, service_port) ==
    << "configure terminal",
       "interface gpon-olt_" \o pon_port,
       "onu " \o ToString(onu_id) \o " type auto sn " \o serial_number,
       "exit",
       "interface gpon-onu_" \o pon_port \o ":" \o ToString(onu_id) >>
    \o (IF name # <<>> THEN << "name " \o Join(SafeName(name)) >> ELSE <<>>)
    \o << "tcont 1 profile " \o line_profile,
          "gemport 1 tcont 1",
          "switchport mode trunk vport 1",
          "service-port 1 vport 1 user-vlan " \o ToString(vlan)
              \o " vlan " \o ToString(vlan),
          "exit",
          "exit" >>

\* a C320 delete sequence that leaves the configuration mode open
c320_get_delete_onu_commands_one_exit(pon_port, onu_id) ==
    << "configure terminal",
       "interface gpon-olt_" \o pon_port,
       "no onu " \o ToString(onu_id),
       "exit" >>

\* ZTEC320Adapter.get_delete_onu_commands
c320_get_delete_onu_commands(pon_port, onu_id) ==
    << "configure terminal",
       "interface gpon-olt_" \o pon_port,
       "no onu " \o ToString(onu_id),
       "exit",
       "exit" >>

\* the method of the adapter's class (each variant overrides all three)
register_onu_commands(cls, r) ==
    IF cls = "ZTEC320Adapter"
    THEN c320_get_register_onu_commands(r.pon_port, r.onu_id, r.serial_number, r.name,
                                        r.line_profile, r.service_profile, r.vlan,
                                        r.service_port)
    ELSE get_register_onu_commands(r.pon_port, r.onu_id, r.serial_number, r.name,
                                   r.line_profile, r.service_profile, r.vlan,
                                   r.service_port)

delete_onu_commands(cls, pon_port, onu_id) ==
    IF cls = "ZTEC320Adapter" THEN c320_get_delete_onu_commands(pon_port, onu_id)
    ELSE get_delete_onu_commands(pon_port, onu_id)

\* ------------------------------------------------------ in-band error text
error_patterns ==
    << "error", "invalid", "failed", "not found", "does not exist", "unknown command" >>

\* str.lower() on the words the device uses
Lower(w) ==
    CASE w = "Error" -> "error"
      [] w = "ECHO"  -> "echo"
      [] OTHER       -> w

\* the scan without output.lower()
_check_error_case_sensitive(output) ==
    \E n \in 1..Len(error_patterns) :
        \E i \in 1..Len(output) : output[i].w = error_patterns[n]

_check_error_in_output(output) ==
    \E n \in 1..Len(error_patterns) :
        \E i \in 1..Len(output) : Lower(output[i].w) = error_patterns[n]

\* the loop over the results in register_onu and delete_onu
FailingSteps(res) ==
    { i \in 1..Len(res) : ~res[i].success \/ _check_error_in_output(res[i].output) }

\* the loop reporting enumerate's index i instead of i+1
CheckResults_zero_based(res) ==
    IF FailingSteps(res) = {}
    THEN [success |-> TRUE, error |-> "None", step |-> 0, detail |-> <<>>]
    ELSE LET i == CHOOSE n \in FailingSteps(res) : \A m \in FailingSteps(res) : n <= m
         IN  IF ~res[i].success
             THEN [success |-> FALSE, error |-> "Command failed at step",
                   step |-> i - 1, detail |-> res[i].error]
             ELSE [success |-> FALSE, error |-> "OLT error at step",
                   step |-> i - 1, detail |-> res[i].output]

CheckResults(res) ==
    IF FailingSteps(res) = {}
    THEN [success |-> TRUE, error |-> "None", step |-> 0, detail |-> <<>>]
    ELSE LET i == CHOOSE n \in FailingSteps(res) : \A m \in FailingSteps(res) : n <= m
         IN  IF ~res[i].success
             THEN [success |-> FALSE, error |-> "Command failed at step",
                   step |-> i, detail |-> res[i].error]
             ELSE [success |-> FALSE, error |-> "OLT error at step",
                   step |-> i, detail |-> res[i].output]

\* --------------------------------------------------------------- discovery
get_unconfigured_onu_command == "show gpon onu uncfg"

\* ZTEC320Adapter.get_unconfigured_onu_command
c320_get_unconfigured_onu_command == "show gpon onu uncfg"

unconfigured_onu_command(cls) ==
    IF cls = "ZTEC320Adapter" THEN c320_get_unconfigured_onu_command
    ELSE get_unconfigured_onu_command

\* the groups of "gpon-onu_(\d+/\d+/\d+):(\d+)" on the index words the
\* device writes
IndexGroups(w) ==
    CASE w = "gpon-onu_1/1/1:1"  -> [hit |-> TRUE, pon_port |-> "1/1/1", digits |-> "1"]
      [] w = "gpon-onu_1/1/2:05" -> [hit |-> TRUE, pon_port |-> "1/1/2", digits |-> "05"]
      [] OTHER                   -> [hit |-> FALSE, pon_port |-> "", digits |-> ""]

\* int() on those digits
int(digits) ==
    CASE digits = "1"  -> 1
      [] digits = "05" -> 5
      [] OTHER         -> 0

\* the first position at or after i that holds no whitespace (\s+ and \S+
\* are greedy); Len + 1 when there is none
RECURSIVE SkipSpace(_, _)
SkipSpace(ws, i) ==
    IF i <= Len(ws) /\ ws[i] \in Whitespace THEN SkipSpace(ws, i + 1) ELSE i

\* the first position at or after i that holds whitespace
RECURSIVE SkipText(_, _)
SkipText(ws, i) ==
    IF i <= Len(ws) /\ ws[i] \notin Whitespace THEN SkipText(ws, i + 1) ELSE i

\* the text of positions a..b-1
RECURSIVE Run(_, _, _)
Run(ws, a, b) == IF a >= b THEN "" ELSE ws[a] \o Run(ws, a + 1, b)

\* serial_number.upper()[:4] on the serial numbers the device writes
UpperPrefix(serial_number) ==
    CASE serial_number = "ZTEGC1234567" -> "ZTEG"
      [] serial_number = "znts00000002" -> "ZNTS"
      [] serial_number = "HWTC00000001" -> "HWTC"
      [] OTHER                          -> ""

\* tables that disagree on a prefix both hold
type_map_disagreeing(cls) ==
    IF cls = "ZTEC320Adapter"
    THEN << <<"ZTEG", "ZTE GPON">>, <<"HWTC", "Huawei GPON">>, <<"ALCL", "Alcatel">>,
            <<"FHTT", "Fiberhome">>, <<"ZNTS", "ZTE Smart">> >>
    ELSE << <<"ZTEG", "ZTE GPON">>, <<"HWTC", "Huawei">>, <<"ALCL", "Alcatel">>,
            <<"FHTT", "Fiberhome">> >>

type_map(cls) ==
    IF cls = "ZTEC320Adapter"
    THEN << <<"ZTEG", "ZTE GPON">>, <<"HWTC", "Huawei">>, <<"ALCL", "Alcatel">>,
            <<"FHTT", "Fiberhome">>, <<"ZNTS", "ZTE Smart">> >>
    ELSE << <<"ZTEG", "ZTE GPON">>, <<"HWTC", "Huawei">>, <<"ALCL", "Alcatel">>,
            <<"FHTT", "Fiberhome">> >>

_detect_onu_type(cls, serial_number) ==
    LET hits == { n \in 1..Len(type_map(cls)) :
                    type_map(cls)[n][1] = UpperPrefix(serial_number) }
    IN  IF hits = {} THEN "Unknown"
        ELSE type_map(cls)[CHOOSE n \in hits : \A m \in hits : n <= m][2]

ONUDiscoveryResult(pon_port, onu_id, serial_number, onu_type, status) ==
    [pon_port |-> pon_port, onu_id |-> onu_id, serial_number |-> serial_number,
     onu_type |-> onu_type, status |-> status]

\* one attempt of the pattern "gpon-onu_(..):(\d+)\s+(\S+)\s+(\S+)" at
\* position i: the index word, whitespace, a serial, whitespace, a status
MatchAt(ws, i) ==
    LET a == SkipSpace(ws, i + 1)     \* the serial begins
        b == SkipText(ws, a)          \* and ends
        c == SkipSpace(ws, b)         \* the status begins
        d == SkipText(ws, c)          \* and ends
    IN  [hit |-> /\ IndexGroups(ws[i]).hit
                 /\ a > i + 1 /\ b > a /\ c > b /\ d > c,
         serial_number |-> Run(ws, a, b), status |-> Run(ws, c, d), end |-> d]

\* the loop over re.finditer(pattern, output): the matches from left to
\* right, each search starting where the last match ended
RECURSIVE finditer(_, _, _)
finditer(cls, ws, i) ==
    IF i > Len(ws) THEN <<>>
    ELSE LET m == MatchAt(ws, i)
             g == IndexGroups(ws[i])
         IN  IF m.hit
             THEN << ONUDiscoveryResult(g.pon_port, int(g.digits), m.serial_number,
                                        _detect_onu_type(cls, m.serial_number),
                                        m.status) >>
                  \o finditer(cls, ws, m.end)
             ELSE finditer(cls, ws, i + 1)

\* a parser that keeps the first match only (re.search)
parse_unconfigured_onus_first(cls, ws) ==
    LET all == finditer(cls, ws, 1)
    IN  IF all = <<>> THEN <<>> ELSE <<all[1]>>

\* parse_unconfigured_onus, on the words of the output
parse_unconfigured_onus(cls, ws) == finditer(cls, ws, 1)

\* discover_onus, given the result of the discovery command.  The parser
\* has no statement that raises on text it does not match, so the except
\* clause is never entered.
discover_onus(cls, result) ==
    IF ~result.success
    THEN [success |-> FALSE, onus |-> <<>>, error |-> result.error, parsed |-> FALSE]
    ELSE [success |-> TRUE, onus |-> parse_unconfigured_onus(cls, Words(result.output)),
          error |-> "None", parsed |-> TRUE]

\* what the device answers to the discovery command
Header == <<"OnuIndex", " ", "Sn", " ", "State", "\n">>

DiscoveryListing ==
    <<"ECHO", "\n">> \o Header
    \o <<"gpon-onu_1/1/1:1", " ", "ZTEGC1234567", " ", "initial", "\n">>
    \o <<"gpon-onu_1/1/2:05", " ", " ", "znts00000002", " ", "unknown", "\n">>
    \o <<"OLT", "#">>

PlainDiscovery == Reaction(<<DiscoveryListing>>, FALSE)

DiscoveryReactions ==
    { PlainDiscovery,
      \* no unconfigured ONU
      Reaction(<< <<"ECHO", "\n">> \o Header \o <<"OLT", "#">> >>, FALSE),
      \* a line cut short: no state column
      Reaction(<< <<"ECHO", "\n">> \o Header
                  \o <<"gpon-onu_1/1/1:1", " ", "HWTC00000001", "\n", "OLT", "#">> >>,
               FALSE),
      \* the device rejects the command
      Reaction(<<<<"Error", "#">>>>, FALSE),
      \* silence
      Reaction(<<>>, FALSE),
      \* the listing, then the connection closes
      Reaction(<<DiscoveryListing>>, TRUE) }

\* ----------------------------------------------------------------- inputs
CommandNames == {"show version", "exit"}

CommandLists == UNION { [1..n -> CommandNames] : n \in 0..MaxCmds }

\* a name of 34 characters: "Jl. Merdeka 17 Blok C rumah no 123"
LongName ==
    << "J", "l", ".", " ", "M", "e", "r", "d", "e", "k", "a", " ", "1", "7",
       " ", "B", "l", "o", "k", " ", "C", " ", "r", "u", "m", "a", "h", " ",
       "n", "o", " ", "1", "2", "3" >>

\* provisioning requests (service_port 0: not given)
Requests ==
    { [pon_port |-> "1/1/2", onu_id |-> 5, serial_number |-> "ZTEGC1234567",
       name |-> LongName, line_profile |-> "LP", service_profile |-> "SP",
       vlan |-> 100, service_port |-> 0],
      [pon_port |-> "1/1/1", onu_id |-> 1, serial_number |-> "HWTC00000001",
       name |-> <<>>, line_profile |-> "LP", service_profile |-> "SP",
       vlan |-> 200, service_port |-> 7] }

\* the choices the environment has when a command is executed on session s
RxChoices(s) ==
    IF s.connected /\ s.link = "up" THEN Reactions ELSE {PlainReaction}

SendChoices(s) ==
    IF s.connected /\ s.link # "up" THEN BOOLEAN ELSE {TRUE}

MergeChoices(s) ==
    IF s.connected /\ s.link = "up" /\ connection_type = "telnet" /\ s.pending # <<>>
    THEN BOOLEAN ELSE {FALSE}

Fault(rx) == IF rx = PlainReaction THEN 0 ELSE 1

\* the same choice for the discovery command
DiscoveryChoices(s) ==
    IF s.connected /\ s.link = "up" THEN DiscoveryReactions ELSE {PlainDiscovery}

Budget(n) == /\ faults + n <= MaxFaults
             /\ faults' = faults + n

\* input left over from earlier operations belongs to no command of this one
Stale(t) == [i \in 1..Len(t) |-> Tok(t[i].w, 0)]

\* the connection fields take the values of record s
SetSessionOf(s) ==
    /\ _connected' = s.connected
    /\ _ssh_client' = s.ssh_client
    /\ _ssh_channel' = s.ssh_channel
    /\ _telnet_client' = s.telnet_client
    /\ link' = s.link
    /\ pending' = s.pending

SetSession(s) ==
    /\ _connected' = s.connected
    /\ _ssh_client' = s.ssh_client
    /\ _ssh_channel' = s.ssh_channel
    /\ _telnet_client' = s.telnet_client
    /\ link' = s.link
    /\ pending' = s.pending
    /\ UNCHANGED <<adapter, connection_type>>

\* ------------------------------------------------------ adapter factory
\* settings.olt_connection_timeout and settings.olt_command_timeout
DEFAULT_CONNECT_TIMEOUT == 10
DEFAULT_COMMAND_TIMEOUT == 30

\* An optional integer argument is <<>> (None) or <<n>>.
\* "x or default": None and 0 are both false
Or(x, default) == IF x = <<>> \/ x = <<0>> THEN default ELSE x[1]

\* str.lower() on the transport kinds callers write
LowerKind(kind) ==
    CASE kind = "SSH"    -> "ssh"
      [] kind = "Telnet" -> "telnet"
      [] OTHER           -> kind

NoAdapter == [cls |-> "None"]

\* ZTEBaseAdapter.__init__, for an instance of class cls
ZTEBaseAdapter(cls, host, port, username, password, kind, connect_timeout, command_timeout) ==
    [fields |-> [cls |-> cls, host |-> host, port |-> port,
                 username |-> username, password |-> password,
                 connect_timeout |-> Or(connect_timeout, DEFAULT_CONNECT_TIMEOUT),
                 command_timeout |-> Or(command_timeout, DEFAULT_COMMAND_TIMEOUT)],
     connection_type |-> LowerKind(kind),
     _ssh_client |-> FALSE, _ssh_channel |-> FALSE, _telnet_client |-> FALSE,
     _connected |-> FALSE]

\* OLTType value -> adapter class, in the order of the table
ADAPTER_MAP ==
    << [olt_type |-> "zte_c300", cls |-> "ZTEC300Adapter"],
       [olt_type |-> "zte_c320", cls |-> "ZTEC320Adapter"] >>

\* ", ".join(t.value for t in ADAPTER_MAP.keys())
RECURSIVE JoinComma(_)
JoinComma(q) ==
    IF q = <<>> THEN ""
    ELSE IF Len(q) = 1 THEN q[1]
    ELSE q[1] \o ", " \o JoinComma(Tail(q))

Supported == JoinComma([n \in 1..Len(ADAPTER_MAP) |-> ADAPTER_MAP[n].olt_type])

\* a factory that falls back to the first class of the table
get_zte_adapter_fallback(olt_type, host, port, username, password, kind, connect_timeout, command_timeout) ==
    LET hits == { n \in 1..Len(ADAPTER_MAP) : ADAPTER_MAP[n].olt_type = olt_type }
        cls == IF hits = {} THEN ADAPTER_MAP[1].cls
               ELSE ADAPTER_MAP[CHOOSE n \in hits : TRUE].cls
    IN  [raised |-> FALSE, error |-> "None",
         obj |-> ZTEBaseAdapter(cls, host, port, username, password, kind,
                                connect_timeout, command_timeout)]

\* get_zte_adapter
get_zte_adapter(olt_type, host, port, username, password, kind, connect_timeout, command_timeout) ==
    LET hits == { n \in 1..Len(ADAPTER_MAP) : ADAPTER_MAP[n].olt_type = olt_type }
    IN  IF hits = {}
        THEN [raised |-> TRUE,
              error |-> "Unsupported OLT type: " \o olt_type
                        \o ". Supported types: " \o Supported,
              obj |-> NoAdapter]
        ELSE [raised |-> FALSE, error |-> "None",
              obj |-> ZTEBaseAdapter(ADAPTER_MAP[CHOOSE n \in hits : TRUE].cls,
                                     host, port, username, password, kind,
                                     connect_timeout, command_timeout)]

\* ------------------------------------------------------------ the tables
\* a row of table "olts" (models/olt.py); the credentials are kept decrypted
OLT(olt_type, is_enabled) ==
    [olt_type |-> olt_type, ip_address |-> "10.0.0.1", cli_port |-> 23,
     ro_username |-> "monitor", ro_password |-> "ro-secret",
     rw_username |-> "admin", rw_password |-> "rw-secret",
     snmp_community |-> "public", snmp_port |-> 161, is_enabled |-> is_enabled]

\* a row of table "provisioning_templates" (models/template.py)
ProvisioningTemplate(line_profile, service_profile, vlan) ==
    [is_active |-> TRUE, line_profile |-> line_profile,
     service_profile |-> service_profile, vlan |-> vlan, usage_count |-> 0]

\* no service operation was called
NoCall == [none |-> TRUE]

InitTables ==
    /\ olts = [id \in {1} |-> OLT("zte_c300", TRUE)]
    /\ onus = {}
    /\ templates = [id \in {1} |-> ProvisioningTemplate("LP", "SP", 100)]
    /\ svc_pc = "idle"
    /\ svc_op = "init"
    /\ svc_args = NoCall
    /\ svc_opened = FALSE
    /\ svc_ret = NoCall

\* ------------------------------------------------------------------- Init
NoReturn == [success |-> FALSE, error |-> "None"]

NoArgs == [none |-> TRUE]

\* the adapter the operations below are called on
Adapter0(kind) ==
    get_zte_adapter("zte_c300", "10.0.0.1", 23, "admin", "secret", kind, <<>>, <<>>).obj

InitAdapter ==
    /\ connection_type \in {"ssh", "telnet"}
    /\ adapter = Adapter0(connection_type).fields
    /\ args = NoArgs
    /\ _connected = FALSE
    /\ _ssh_client = FALSE
    /\ _ssh_channel = FALSE
    /\ _telnet_client = FALSE
    /\ link = "down"
    /\ pending = <<>>
    /\ pc = "idle"
    /\ op = "init"
    /\ cmds = <<>>
    /\ results = <<>>
    /\ wire = <<>>
    /\ ret = NoReturn
    /\ raised = FALSE
    /\ faults = 0
    /\ last_read = NoRead
    /\ was_ready = FALSE
    /\ InitTables

\* ------------------------------------------------------- the SNMP client
Utilities == {"snmpget", "snmpwalk", "snmpbulkget"}

snmp_timeout == 5
snmp_retries == 3

\* SNMPManager.__init__
SNMPManager(host, community, port, timeout, retries) ==
    [host |-> host, community |-> community, port |-> port,
     timeout |-> timeout, retries |-> retries]

\* Python strings the client handles: the decimal numeral of n, or other text
PyNum(n) == [kind |-> "num", n |-> n, s |-> ToString(n)]
PyText(str) == [kind |-> "text", n |-> 0, s |-> str]

\* a line "<oid> = <type>: <val>" of utility output ("<oid> = <val>" when
\* type is "")
Line(oid, type, val) == [oid |-> oid, type |-> type, val |-> val]

NoSuchObject == "No Such Object available on this agent at this OID"
NoSuchInstance == "No Such Instance currently exists at this OID"

Lines ==
    { Line("iso.3.6.1", "INTEGER", PyNum(1)),
      Line("iso.3.6.1", "INTEGER", PyNum(250)),
      Line("iso.3.6.1", "INTEGER", PyNum(-250)),
      Line("iso.3.6.1", "STRING", PyText("ZTE C320")),
      Line("iso.3.6.1", "", PyText(NoSuchObject)),
      Line("iso.3.6.1", "", PyText(NoSuchInstance)) }

\* how one run of a utility that exists ends
Exit0(stdout) == [kind |-> "exit", returncode |-> 0, stdout |-> stdout, stderr |-> ""]
ExitError(stderr) == [kind |-> "exit", returncode |-> 1, stdout |-> <<>>, stderr |-> stderr]
Expired == [kind |-> "expired", returncode |-> 0, stdout |-> <<>>, stderr |-> ""]
\* the utility is not installed: subprocess.run raises FileNotFoundError
Missing == [kind |-> "missing", returncode |-> 0, stdout |-> <<>>, stderr |-> ""]

RunOutcomes ==
    { Exit0(<<l>>) : l \in Lines }
    \cup { Exit0(<<>>), ExitError("Timeout: No Response"), ExitError(""), Expired }

\* the outcomes tried for each of the three reads of get_system_info
InfoOutcomes ==
    { Exit0(<<Line("iso.3.6.1", "STRING", PyText("ZTE C320"))>>),
      Exit0(<<Line("iso.3.6.1", "", PyText(NoSuchObject))>>),
      ExitError("Timeout: No Response"),
      Expired }

WalkOutcomes ==
    RunOutcomes
    \cup { Exit0(<<Line("iso.3.6.1.1", "INTEGER", PyNum(1)),
                   Line("iso.3.6.1.2", "STRING", PyText("ZTE C320"))>>) }

\* the argument vector of one utility run
SnmpCmd(m, utility, extra, oid) ==
    [utility |-> utility,
     args |-> <<"-v", "2c", "-c", m.community, "-t", ToString(m.timeout),
                "-r", ToString(m.retries)>> \o extra
              \o <<m.host \o ":" \o ToString(m.port), oid>>]

\* check_snmp_tools
check_snmp_tools(tools) ==
    LET no_get == "snmpget" \notin tools
        no_walk == "snmpwalk" \notin tools
        missing == IF no_get /\ no_walk THEN "snmpget, snmpwalk"
                   ELSE IF no_get THEN "snmpget" ELSE "snmpwalk"
    IN  IF no_get \/ no_walk
        THEN [ok |-> FALSE,
              error |-> "SNMP tools not found on server (" \o missing
                        \o "). Please install the 'snmp' package: sudo apt install snmp"]
        ELSE [ok |-> TRUE, error |-> "None"]

\* _run_snmp_command: subprocess.run is called in every case; it raises
\* FileNotFoundError when the utility is not installed
_run_snmp_command(cmd, tools, o) ==
    IF cmd.utility \notin tools
    THEN [success |-> FALSE, output |-> <<>>,
          error |-> "snmp tools not installed (snmpget/snmpwalk not found)"]
    ELSE IF o.kind = "expired"
    THEN [success |-> FALSE, output |-> <<>>, error |-> "SNMP request timed out"]
    ELSE IF o.returncode = 0
    THEN [success |-> TRUE, output |-> o.stdout, error |-> "None"]
    ELSE [success |-> FALSE, output |-> <<>>,
          error |-> IF o.stderr # "" THEN o.stderr ELSE "Unknown error"]

IntegerTypes == {"INTEGER", "Gauge32", "Counter32", "Counter64"}

\* _parse_snmp_value on one line: the ordered patterns, then the text after "="
_parse_snmp_value(line) ==
    IF line.type = "STRING" THEN line.val
    ELSE IF line.type \in IntegerTypes /\ line.val.kind = "num" /\ line.val.n >= 0
    THEN line.val
    ELSE IF line.type = "" /\ line.val.kind = "num" THEN line.val
    ELSE IF line.type = "" THEN line.val
    ELSE PyText(line.type \o ": " \o line.val.s)

\* _parse_snmp_value on the whole output of snmpget
ParseOutput(output) ==
    IF output = <<>> THEN PyText("") ELSE _parse_snmp_value(output[1])

\* "No Such" in output or "noSuch" in output.lower(): a lower-cased text
\* holds no capital S, so the second test never succeeds
HasNoSuch(output) ==
    \E i \in 1..Len(output) :
        output[i].val.kind = "text" /\ output[i].val.s \in {NoSuchObject, NoSuchInstance}

SNMPResult(success, value, error) ==
    [success |-> success, value |-> value, error |-> error]

None == PyText("None")

\* SNMPManager.get
get(m, oid, tools, o) ==
    LET cmd == SnmpCmd(m, "snmpget", <<>>, oid)
        r == _run_snmp_command(cmd, tools, o)
    IN  [runs |-> <<cmd>>, output |-> r.output,
         result |-> IF r.success
                    THEN IF HasNoSuch(r.output)
                         THEN SNMPResult(FALSE, None, "OID not found")
                         ELSE SNMPResult(TRUE, ParseOutput(r.output), "None")
                    ELSE SNMPResult(FALSE, None, r.error)]

\* the (oid, value) pairs of the lines of a walk
Pairs(output) ==
    [i \in 1..Len(output) |-> <<output[i].oid, _parse_snmp_value(output[i])>>]

\* SNMPManager.walk
walk(m, oid, tools, o) ==
    LET cmd == SnmpCmd(m, "snmpwalk", <<>>, oid)
        r == _run_snmp_command(cmd, tools, o)
    IN  [runs |-> <<cmd>>, output |-> r.output,
         result |-> IF r.success
                    THEN SNMPResult(TRUE, Pairs(r.output), "None")
                    ELSE SNMPResult(FALSE, None, r.error)]

max_repetitions == 25

get_bulk_no_fallback(m, oid, tools, o, o2) ==
    LET cmd == SnmpCmd(m, "snmpbulkget", <<"-Cr", ToString(max_repetitions)>>, oid)
        r == _run_snmp_command(cmd, tools, o)
    IN  [runs |-> <<cmd>>, output |-> r.output,
         result |-> IF r.success THEN SNMPResult(TRUE, Pairs(r.output), "None")
                    ELSE SNMPResult(FALSE, None, r.error)]

\* SNMPManager.get_bulk
get_bulk(m, oid, tools, o, o2) ==
    LET cmd == SnmpCmd(m, "snmpbulkget", <<"-Cr", ToString(max_repetitions)>>, oid)
        r == _run_snmp_command(cmd, tools, o)
        w == walk(m, oid, tools, o2)
    IN  IF r.success
        THEN [runs |-> <<cmd>>, output |-> r.output,
              result |-> SNMPResult(TRUE, Pairs(r.output), "None")]
        ELSE [runs |-> <<cmd>> \o w.runs, output |-> w.output, result |-> w.result]

SYS_DESCR == "1.3.6.1.2.1.1.1.0"
SYS_UPTIME == "1.3.6.1.2.1.1.3.0"
SYS_NAME == "1.3.6.1.2.1.1.5.0"
ONU_STATUS_BASE == "1.3.6.1.4.1.3902.1012.3.28.1.1.1"
ONU_RX_POWER_BASE == "1.3.6.1.4.1.3902.1012.3.50.12.1.1.10"
ONU_TX_POWER_BASE == "1.3.6.1.4.1.3902.1012.3.50.12.1.1.11"

\* SNMPManager.test_connection
snmp_test_connection(m, tools, o) ==
    LET t == check_snmp_tools(tools)
        g == get(m, SYS_DESCR, tools, o)
    IN  IF ~t.ok
        THEN [runs |-> <<>>, output |-> <<>>,
              result |-> [success |-> FALSE, error |-> t.error]]
        ELSE [runs |-> g.runs, output |-> g.output,
              result |-> IF g.result.success
                         THEN [success |-> TRUE, error |-> "None"]
                         ELSE [success |-> FALSE, error |-> g.result.error]]

\* SNMPManager.get_system_info
get_system_info(m, tools, o1, o2, o3) ==
    LET d == get(m, SYS_DESCR, tools, o1)
        u == get(m, SYS_UPTIME, tools, o2)
        n == get(m, SYS_NAME, tools, o3)
    IN  [runs |-> d.runs \o u.runs \o n.runs, output |-> <<>>,
         result |-> [description |-> IF d.result.success THEN d.result.value ELSE None,
                     uptime |-> IF u.result.success THEN u.result.value ELSE None,
                     name |-> IF n.result.success THEN n.result.value ELSE None]]

\* pon_port.replace("/", "."), on the characters of the port
DottedPort(pon_port) ==
    Join([i \in 1..Len(pon_port) |-> IF pon_port[i] = "/" THEN "." ELSE pon_port[i]])

OnuOid(base, pon_port, onu_id) ==
    base \o "." \o DottedPort(pon_port) \o "." \o ToString(onu_id)

\* float(value) / 10.0: tenths of a dBm to dBm, as a fraction; None when the
\* get failed, the value is empty or float() raises ValueError
Power(r) ==
    IF r.success /\ r.value.s # "" /\ r.value.kind = "num"
    THEN [kind |-> "float", num |-> r.value.n, den |-> 10]
    ELSE [kind |-> "None", num |-> 0, den |-> 1]

\* SNMPManager.get_onu_optical_power
get_onu_optical_power(m, pon_port, onu_id, tools, o1, o2) ==
    LET rx == get(m, OnuOid(ONU_RX_POWER_BASE, pon_port, onu_id), tools, o1)
        tx == get(m, OnuOid(ONU_TX_POWER_BASE, pon_port, onu_id), tools, o2)
    IN  [runs |-> rx.runs \o tx.runs, output |-> <<>>,
         result |-> [rx_power |-> Power(rx.result), tx_power |-> Power(tx.result)]]

\* SNMPManager.get_onu_status
get_onu_status(m, pon_port, onu_id, tools, o) ==
    LET g == get(m, OnuOid(ONU_STATUS_BASE, pon_port, onu_id), tools, o)
        v == g.result.value
    IN  [runs |-> g.runs, output |-> g.output,
         result |-> IF ~g.result.success THEN "None"
                    ELSE IF v.s = "1" THEN "online"
                    ELSE IF v.s = "2" THEN "offline"
                    ELSE IF v.s = "3" THEN "low_signal"
                    ELSE "unknown"]

\* a set that hands the request to snmpset
set_through(m, oid, value, tools) ==
    LET cmd == SnmpCmd(m, "snmpset", <<>>, oid)
    IN  [runs |-> <<cmd>>, output |-> <<>>,
         result |-> SNMPResult("snmpset" \in tools, None, "None")]

\* SNMPManager.set
set(m, oid, value, tools) ==
    [runs |-> <<>>, output |-> <<>>,
     result |-> SNMPResult(FALSE, None,
                    "SNMP SET operations are not allowed. This is a security violation.")]

Manager0 == SNMPManager("10.0.0.1", "public", 161, snmp_timeout, snmp_retries)

InitManager ==
    /\ manager = Manager0
    /\ snmp_op = "init"
    /\ snmp_ret = None
    /\ snmp_out = <<>>
    /\ spawned = <<>>
    /\ exits = <<>>

\* the adapter and the SNMP client on a host that has all utilities
Init ==
    /\ InitAdapter
    /\ InitManager
    /\ snmp_tools = Utilities

\* the same on a host that has any of the utilities
InitAnyHost ==
    /\ InitAdapter
    /\ connection_type = "ssh"
    /\ InitManager
    /\ snmp_tools \in SUBSET Utilities
\* ---------------------------------------------------------------- actions
\* adapter.connect()
Connect ==
    /\ pc = "idle"
    /\ \E h \in HandshakeOutcomes, rx \in Reactions :
         LET x == connect(Self, h, rx)
         IN  /\ Budget(IF h = "ok" /\ rx = PlainReaction THEN 0 ELSE 1)
             /\ SetSession(x.s)
             /\ ret' = [success |-> x.value, error |-> x.error]
             /\ raised' = x.raised
             /\ last_read' = x.read
    /\ op' = "connect"
    /\ args' = NoArgs
    /\ was_ready' = _connected
    /\ cmds' = <<>>
    /\ results' = <<>>
    /\ wire' = <<>>
    /\ UNCHANGED <<pc, snmp_vars, service_vars>>

\* adapter.disconnect()
Disconnect ==
    /\ pc = "idle"
    /\ \E close_raises \in BOOLEAN :
         LET x == disconnect(Self, close_raises)
         IN  /\ SetSession(x.s)
             /\ raised' = x.raised
    /\ op' = "disconnect"
    /\ args' = NoArgs
    /\ was_ready' = _connected
    /\ ret' = NoReturn
    /\ cmds' = <<>>
    /\ results' = <<>>
    /\ wire' = <<>>
    /\ last_read' = NoRead
    /\ UNCHANGED <<pc, faults, snmp_vars, service_vars>>

\* adapter.execute_command(command)
ExecuteCommand ==
    /\ pc = "idle"
    /\ \E command \in CommandNames :
       LET s0 == [Self EXCEPT !.pending = Stale(pending)]
       IN  \E rx \in RxChoices(s0), sendok \in SendChoices(s0), merge \in MergeChoices(s0) :
             LET x == execute_command(s0, command, 1, rx, sendok, merge)
             IN  /\ Budget(Fault(rx))
                 /\ SetSession(x.s)
                 /\ args' = [command |-> command]
                 /\ cmds' = <<command>>
                 /\ results' = <<x.result>>
                 /\ wire' = IF x.sent THEN <<command>> ELSE <<>>
                 /\ ret' = x.result
                 /\ last_read' = x.read
    /\ op' = "execute_command"
    /\ was_ready' = _connected
    /\ raised' = FALSE
    /\ UNCHANGED <<pc, snmp_vars, service_vars>>

\* adapter.discover_onus()
DiscoverOnus ==
    /\ pc = "idle"
    /\ LET s0 == [Self EXCEPT !.pending = Stale(pending)]
           command == unconfigured_onu_command(adapter.cls)
       IN  \E rx \in DiscoveryChoices(s0), sendok \in SendChoices(s0),
              merge \in MergeChoices(s0) :
             LET x == execute_command(s0, command, 1, rx, sendok, merge)
             IN  /\ Budget(IF rx = PlainDiscovery THEN 0 ELSE 1)
                 /\ SetSession(x.s)
                 /\ cmds' = <<command>>
                 /\ results' = <<x.result>>
                 /\ wire' = IF x.sent THEN <<command>> ELSE <<>>
                 /\ ret' = discover_onus(adapter.cls, x.result)
                 /\ last_read' = x.read
    /\ op' = "discover_onus"
    /\ args' = NoArgs
    /\ was_ready' = _connected
    /\ raised' = FALSE
    /\ UNCHANGED <<pc, snmp_vars, service_vars>>

\* adapter.test_connection()
TestConnection ==
    /\ pc = "idle"
    /\ \E h \in HandshakeOutcomes, rx1 \in Reactions, close_raises \in BOOLEAN :
        \E c \in {connect(Self, h, rx1)} :
        \E rx2 \in RxChoices(c.s), sendok \in SendChoices(c.s),
           merge \in MergeChoices(c.s) :
        \E x \in {execute_command(c.s, "show version", 1, rx2, sendok, merge)} :
        \E t \in {test_connection(c, x, close_raises)} :
            /\ Budget((IF h = "ok" /\ rx1 = PlainReaction THEN 0 ELSE 1)
                      + Fault(rx2))
            /\ SetSession(t.s)
            /\ ret' = t.value
            /\ raised' = t.raised
            /\ results' = t.results
            /\ wire' = t.wire
            /\ last_read' = t.read
    /\ op' = "test_connection"
    /\ args' = NoArgs
    /\ was_ready' = _connected
    /\ cmds' = <<"show version">>
    /\ UNCHANGED <<pc, snmp_vars, service_vars>>

\* what an operation over a command list returns
Finalize(name, res) ==
    IF name = "execute_commands" THEN res ELSE CheckResults(res)

\* the call of an operation that runs a command list: execute_commands(list),
\* register_onu(request) or delete_onu(pon_port, onu_id)
Begin(name, a, list) ==
    /\ pc = "idle"
    /\ op' = name
    /\ args' = a
    /\ was_ready' = _connected
    /\ cmds' = list
    /\ results' = <<>>
    /\ wire' = <<>>
    /\ raised' = FALSE
    /\ last_read' = NoRead
    /\ pending' = Stale(pending)
    /\ pc' = IF list = <<>> THEN "idle" ELSE "running"
    /\ ret' = IF list = <<>> THEN Finalize(name, <<>>) ELSE NoReturn
    /\ UNCHANGED <<adapter, connection_type, _connected, _ssh_client,
                   _ssh_channel, _telnet_client, link, faults>>
    /\ UNCHANGED <<snmp_vars, service_vars>>

\* adapter.execute_commands(list)
CallExecuteCommands ==
    /\ pc = "idle"
    /\ \E list \in CommandLists :
        Begin("execute_commands", [commands |-> list], list)

\* adapter.register_onu(request)
CallRegisterOnu ==
    /\ pc = "idle"
    /\ \E r \in Requests :
        Begin("register_onu", r, register_onu_commands(adapter.cls, r))

\* adapter.delete_onu(pon_port, onu_id)
CallDeleteOnu ==
    /\ pc = "idle"
    /\ \E r \in Requests :
        Begin("delete_onu", [pon_port |-> r.pon_port, onu_id |-> r.onu_id],
              delete_onu_commands(adapter.cls, r.pon_port, r.onu_id))

\* a loop that never breaks
Continue_always(result) == TRUE

\* the loop of execute_commands: whether it goes on after this result
Continue(result) == result.success

\* one iteration of the loop of execute_commands, and, after the last one,
\* the rest of the operation that called it
Iterate(k, rx, sendok, merge) ==
    LET x == execute_command(Self, cmds[k], k, rx, sendok, merge)
        res == Append(results, x.result)
        done == ~Continue(x.result) \/ k = Len(cmds)
    IN  /\ Budget(Fault(rx))
        /\ SetSession(x.s)
        /\ results' = res
        /\ wire' = IF x.sent THEN Append(wire, cmds[k]) ELSE wire
        /\ last_read' = x.read
        /\ pc' = IF done THEN "idle" ELSE "running"
        /\ ret' = IF done THEN Finalize(op, res) ELSE ret

Step ==
    /\ pc = "running"
    /\ \E rx \in RxChoices(Self), sendok \in SendChoices(Self),
          merge \in MergeChoices(Self) :
         Iterate(Len(results) + 1, rx, sendok, merge)
    /\ UNCHANGED <<args, op, cmds, raised, was_ready, snmp_vars, service_vars>>

\* the device writes output nobody asked for
DeviceEmit ==
    /\ link = "up"
    /\ \E c \in UnsolicitedChunks :
         /\ Len(pending) + Len(c) <= MaxPending
         /\ pending' = pending \o [i \in 1..Len(c) |-> Tok(c[i], 0)]
    /\ Budget(1)
    /\ UNCHANGED <<adapter, connection_type, _connected, _ssh_client,
                   _ssh_channel, _telnet_client, link>>
    /\ UNCHANGED <<args, pc, op, cmds, results, wire, ret, raised, last_read, was_ready>>
    /\ UNCHANGED <<snmp_vars, service_vars>>

\* the device closes the connection
DeviceClose ==
    /\ link = "up"
    /\ link' = "eof"
    /\ Budget(1)
    /\ UNCHANGED <<adapter, connection_type, _connected, _ssh_client,
                   _ssh_channel, _telnet_client, pending>>
    /\ UNCHANGED <<args, pc, op, cmds, results, wire, ret, raised, last_read, was_ready>>
    /\ UNCHANGED <<snmp_vars, service_vars>>

Next ==
    \/ Connect
    \/ Disconnect
    \/ ExecuteCommand
    \/ CallExecuteCommands
    \/ CallRegisterOnu
    \/ CallDeleteOnu
    \/ Step
    \/ DeviceEmit
    \/ DeviceClose

Spec == Init /\ [][Next]_vars

\* an adapter of either class
InitAnyClass ==
    /\ connection_type \in {"ssh", "telnet"}
    /\ \E t \in {"zte_c300", "zte_c320"} :
         adapter = get_zte_adapter(t, "10.0.0.1", 23, "admin", "secret",
                                   connection_type, <<>>, <<>>).obj.fields
    /\ args = NoArgs
    /\ _connected = FALSE
    /\ _ssh_client = FALSE
    /\ _ssh_channel = FALSE
    /\ _telnet_client = FALSE
    /\ link = "down"
    /\ pending = <<>>
    /\ pc = "idle"
    /\ op = "init"
    /\ cmds = <<>>
    /\ results = <<>>
    /\ wire = <<>>
    /\ ret = NoReturn
    /\ raised = FALSE
    /\ faults = 0
    /\ last_read = NoRead
    /\ was_ready = FALSE
    /\ InitManager
    /\ snmp_tools = Utilities
    /\ InitTables

\* the operations that probe a device: discovery and the connection test
NextProbe ==
    \/ Connect
    \/ Disconnect
    \/ DiscoverOnus
    \/ TestConnection
    \/ DeviceEmit
    \/ DeviceClose

SpecProbe == InitAnyClass /\ [][NextProbe]_vars

\* ------------------------------------- the variants' methods on their own
PonPortNames == {"1/1/1", "1/1/2"}
OnuIdNumbers == {1, 5}
SerialNumbers == {"ZTEGC1234567", "HWTC00000001"}
Names == { <<>>, <<"a", " ", "b">>, LongName }
ServiceProfiles == {"SP", "SP-2"}
Vlans == {100, 200}
ServicePorts == {0, 7}

\* the arguments of get_register_onu_commands
SynthRequests ==
    [pon_port : PonPortNames, onu_id : OnuIdNumbers, serial_number : SerialNumbers,
     name : Names, line_profile : {"LP"}, service_profile : ServiceProfiles,
     vlan : Vlans, service_port : ServicePorts]

\* texts handed to parse_unconfigured_onus: what the device prints for the
\* discovery command, and no text
DiscoveryTexts ==
    { r.chunks[1] : r \in { x \in DiscoveryReactions : x.chunks # <<>> } } \cup { <<>> }

\* a method that computes from its arguments and touches no connection
Computes(name, a, list, value) ==
    /\ pc = "idle"
    /\ op' = name
    /\ args' = a
    /\ cmds' = list
    /\ ret' = value
    /\ UNCHANGED <<session_vars, pc, results, wire, raised, faults, last_read,
                   was_ready, snmp_vars, service_vars>>

GetUnconfiguredOnuCommand ==
    /\ pc = "idle"
    /\ Computes("get_unconfigured_onu_command", NoArgs,
                <<unconfigured_onu_command(adapter.cls)>>, NoReturn)

ParseUnconfiguredOnus ==
    /\ pc = "idle"
    /\ \E ws \in DiscoveryTexts :
         Computes("parse_unconfigured_onus", [output |-> ws], <<>>,
                  [onus |-> parse_unconfigured_onus(adapter.cls, ws)])

GetRegisterOnuCommands ==
    /\ pc = "idle"
    /\ \E r \in SynthRequests :
         Computes("get_register_onu_commands", r,
                  register_onu_commands(adapter.cls, r), NoReturn)

GetDeleteOnuCommands ==
    /\ pc = "idle"
    /\ \E p \in PonPortNames, id \in OnuIdNumbers :
         Computes("get_delete_onu_commands", [pon_port |-> p, onu_id |-> id],
                  delete_onu_commands(adapter.cls, p, id), NoReturn)

NextSynth ==
    \/ GetUnconfiguredOnuCommand
    \/ ParseUnconfiguredOnus
    \/ GetRegisterOnuCommands
    \/ GetDeleteOnuCommands

SpecSynth == InitAnyClass /\ [][NextSynth]_vars

\* ------------------------------------------------ SNMPManager operations
Oids == {SYS_DESCR, ONU_STATUS_BASE}

PonPorts == { <<"1", "/", "1", "/", "2">> }

OnuIds == {5}

\* an operation's return value, the subprocess runs it made and how the
\* host and the device let each of them end (outs: the outcomes drawn for
\* the runs, in order)
Returns(x, outs) ==
    /\ snmp_ret' = x.result
    /\ snmp_out' = x.output
    /\ spawned' = x.runs
    /\ exits' = [i \in 1..Len(x.runs) |->
                   IF x.runs[i].utility \in snmp_tools THEN outs[i] ELSE Missing]

SnmpGet ==
    /\ snmp_op' = "get"
    /\ \E oid \in Oids, o \in RunOutcomes :
         Returns(get(manager, oid, snmp_tools, o), <<o>>)
    /\ UNCHANGED <<snmp_tools, manager, session_vars, call_vars, service_vars>>

SnmpWalk ==
    /\ snmp_op' = "walk"
    /\ \E oid \in Oids, o \in WalkOutcomes :
         Returns(walk(manager, oid, snmp_tools, o), <<o>>)
    /\ UNCHANGED <<snmp_tools, manager, session_vars, call_vars, service_vars>>

SnmpGetBulk ==
    /\ snmp_op' = "get_bulk"
    /\ \E oid \in Oids, o \in WalkOutcomes, o2 \in WalkOutcomes :
         Returns(get_bulk(manager, oid, snmp_tools, o, o2), <<o, o2>>)
    /\ UNCHANGED <<snmp_tools, manager, session_vars, call_vars, service_vars>>

SnmpTestConnection ==
    /\ snmp_op' = "test_connection"
    /\ \E o \in RunOutcomes :
         Returns(snmp_test_connection(manager, snmp_tools, o), <<o>>)
    /\ UNCHANGED <<snmp_tools, manager, session_vars, call_vars, service_vars>>

SnmpGetSystemInfo ==
    /\ snmp_op' = "get_system_info"
    /\ \E o1 \in InfoOutcomes, o2 \in InfoOutcomes, o3 \in InfoOutcomes :
         Returns(get_system_info(manager, snmp_tools, o1, o2, o3), <<o1, o2, o3>>)
    /\ UNCHANGED <<snmp_tools, manager, session_vars, call_vars, service_vars>>

SnmpGetOnuOpticalPower ==
    /\ snmp_op' = "get_onu_optical_power"
    /\ \E p \in PonPorts, id \in OnuIds, o1 \in RunOutcomes, o2 \in RunOutcomes :
         Returns(get_onu_optical_power(manager, p, id, snmp_tools, o1, o2), <<o1, o2>>)
    /\ UNCHANGED <<snmp_tools, manager, session_vars, call_vars, service_vars>>

SnmpGetOnuStatus ==
    /\ snmp_op' = "get_onu_status"
    /\ \E p \in PonPorts, id \in OnuIds, o \in RunOutcomes :
         Returns(get_onu_status(manager, p, id, snmp_tools, o), <<o>>)
    /\ UNCHANGED <<snmp_tools, manager, session_vars, call_vars, service_vars>>

SnmpSet ==
    /\ snmp_op' = "set"
    /\ \E oid \in Oids, value \in {PyNum(1), PyText("x")} :
         Returns(set(manager, oid, value, snmp_tools), <<>>)
    /\ UNCHANGED <<snmp_tools, manager, session_vars, call_vars, service_vars>>

NextSnmp ==
    \/ SnmpGet
    \/ SnmpWalk
    \/ SnmpGetBulk
    \/ SnmpTestConnection
    \/ SnmpGetSystemInfo
    \/ SnmpGetOnuOpticalPower
    \/ SnmpGetOnuStatus
    \/ SnmpSet

SpecSnmp == InitAnyHost /\ [][NextSnmp]_vars

\* ------------------------------------------------------------ the factory
OltTypes == {"zte_c300", "zte_c320", "huawei_ma5600"}
Hosts == {"10.0.0.1", "10.0.0.2"}
Ports == {23}
Kinds == {"telnet", "SSH"}
ConnectTimeoutArgs == {<<>>, <<0>>, <<5>>}
CommandTimeoutArgs == {<<0>>, <<7>>}

FactoryArgs ==
    [olt_type : OltTypes, host : Hosts, port : Ports, username : {"admin"},
     password : {"secret"}, connection_type : Kinds,
     connect_timeout : ConnectTimeoutArgs, command_timeout : CommandTimeoutArgs]

\* before any adapter is constructed
InitNoAdapter ==
    /\ adapter = NoAdapter
    /\ args = NoArgs
    /\ connection_type = "None"
    /\ _connected = FALSE
    /\ _ssh_client = FALSE
    /\ _ssh_channel = FALSE
    /\ _telnet_client = FALSE
    /\ link = "down"
    /\ pending = <<>>
    /\ pc = "idle"
    /\ op = "init"
    /\ cmds = <<>>
    /\ results = <<>>
    /\ wire = <<>>
    /\ ret = NoReturn
    /\ raised = FALSE
    /\ faults = 0
    /\ last_read = NoRead
    /\ was_ready = FALSE
    /\ InitManager
    /\ snmp_tools = Utilities
    /\ InitTables

\* adapter = get_zte_adapter(...): the name is bound only when the call returns
GetZteAdapter ==
    /\ pc = "idle"
    /\ \E a \in FactoryArgs :
         LET x == get_zte_adapter(a.olt_type, a.host, a.port, a.username,
                                  a.password, a.connection_type,
                                  a.connect_timeout, a.command_timeout)
         IN  /\ args' = a
             /\ raised' = x.raised
             /\ ret' = [success |-> ~x.raised, error |-> x.error, obj |-> x.obj]
             /\ adapter' = IF x.raised THEN adapter ELSE x.obj.fields
             /\ connection_type' = IF x.raised THEN connection_type
                                   ELSE x.obj.connection_type
             /\ _connected' = IF x.raised THEN _connected ELSE x.obj._connected
             /\ _ssh_client' = IF x.raised THEN _ssh_client ELSE x.obj._ssh_client
             /\ _ssh_channel' = IF x.raised THEN _ssh_channel ELSE x.obj._ssh_channel
             /\ _telnet_client' = IF x.raised THEN _telnet_client
                                  ELSE x.obj._telnet_client
    /\ op' = "get_zte_adapter"
    /\ was_ready' = FALSE
    /\ cmds' = <<>>
    /\ results' = <<>>
    /\ wire' = <<>>
    /\ last_read' = NoRead
    /\ UNCHANGED <<link, pending, pc, faults, snmp_vars, service_vars>>

NextFactory == GetZteAdapter

SpecFactory == InitNoAdapter /\ [][NextFactory]_vars

\* ------------------------------------------------------------ ONUService
\* OLTService.get_ro_adapter and get_rw_adapter: always Telnet, default
\* timeouts
get_ro_adapter(olt) ==
    get_zte_adapter(olt.olt_type, olt.ip_address, olt.cli_port, olt.ro_username,
                    olt.ro_password, "telnet", <<>>, <<>>)

get_rw_adapter(olt) ==
    get_zte_adapter(olt.olt_type, olt.ip_address, olt.cli_port, olt.rw_username,
                    olt.rw_password, "telnet", <<>>, <<>>)

\* the methods class OLTService defines
OLTServiceMethods ==
    { "get_by_id", "get_by_name", "get_all", "get_enabled", "count", "create",
      "update", "delete", "test_ro_connection", "test_rw_connection",
      "test_snmp_connection", "get_ro_adapter", "get_rw_adapter",
      "get_snmp_ro_manager", "get_snmp_rw_manager" }

\* how the device reacts to the service's adapters: the plain answer, an
\* error in the output, and closing the connection at once
ServiceReactions ==
    { PlainReaction, Reaction(<<<<"Error", "#">>>>, FALSE), Reaction(<<>>, TRUE) }

ServiceRxChoices(s) ==
    IF s.connected /\ s.link = "up" THEN ServiceReactions ELSE {PlainReaction}

ServiceDiscoveryChoices(s) ==
    IF s.connected /\ s.link = "up"
    THEN {PlainDiscovery, Reaction(<<<<"Error", "#">>>>, FALSE), Reaction(<<>>, TRUE)}
    ELSE {PlainDiscovery}

\* the connection fields of an adapter that was just constructed
FreshSession == Sess(FALSE, FALSE, FALSE, FALSE, "down", <<>>)

\* Python's None among rows and numbers
NoRow == [none |-> TRUE]
NoPower == [kind |-> "None", num |-> 0, den |-> 1]

\* ONU(olt_id=..., serial_number=..., pon_port=..., onu_id=...) with the
\* column defaults of models/onu.py
ONU(olt_id, serial_number, pon_port, onu_id) ==
    [olt_id |-> olt_id, serial_number |-> serial_number, pon_port |-> pon_port,
     onu_id |-> onu_id, name |-> <<>>, line_profile |-> "", service_profile |-> "",
     vlan |-> 0, service_port |-> 0, template_id |-> 0, status |-> "unknown",
     is_provisioned |-> FALSE, rx_power |-> NoPower, tx_power |-> NoPower,
     last_seen |-> FALSE]

\* the arguments of ONUService.register ("" and 0: not given)
ServiceRequests ==
    { [olt_id |-> 1, pon_port |-> "1/1/2", onu_id |-> 5,
       serial_number |-> "ZTEGC1234567", name |-> LongName, template_id |-> 0,
       line_profile |-> "LP", service_profile |-> "SP", vlan |-> 100,
       service_port |-> 0],
      [olt_id |-> 1, pon_port |-> "1/1/1", onu_id |-> 1,
       serial_number |-> "HWTC00000001", name |-> <<>>, template_id |-> 1,
       line_profile |-> "", service_profile |-> "", vlan |-> 0,
       service_port |-> 7],
      [olt_id |-> 1, pon_port |-> "1/1/1", onu_id |-> 1,
       serial_number |-> "HWTC00000001", name |-> <<>>, template_id |-> 0,
       line_profile |-> "LP", service_profile |-> "SP", vlan |-> 0,
       service_port |-> 0],
      [olt_id |-> 2, pon_port |-> "1/1/2", onu_id |-> 5,
       serial_number |-> "ZTEGC1234567", name |-> LongName, template_id |-> 0,
       line_profile |-> "LP", service_profile |-> "SP", vlan |-> 100,
       service_port |-> 0] }

OltIds == {1, 2}

\* ONUService.get_by_serial and get_by_olt
get_by_serial(rows, serial_number) == { o \in rows : o.serial_number = serial_number }
get_by_olt(rows, olt_id) == { o \in rows : o.olt_id = olt_id }

\* ONUService.register up to its try statement: the checks, and the
\* parameters with the template's values filled in
register_plan(r) ==
    LET existing == get_by_serial(onus, r.serial_number)
        with_template == r.template_id # 0
        found == r.template_id \in DOMAIN templates
        t == templates[r.template_id]
        final_line_profile ==
            IF r.line_profile # "" THEN r.line_profile
            ELSE IF with_template THEN t.line_profile ELSE ""
        final_service_profile ==
            IF r.service_profile # "" THEN r.service_profile
            ELSE IF with_template THEN t.service_profile ELSE ""
        final_vlan ==
            IF r.vlan # 0 THEN r.vlan ELSE IF with_template THEN t.vlan ELSE 0
        error ==
            IF r.olt_id \notin DOMAIN olts THEN "OLT not found"
            ELSE IF ~olts[r.olt_id].is_enabled THEN "OLT is disabled"
            ELSE IF \E o \in existing : o.is_provisioned
            THEN "ONU " \o r.serial_number \o " is already provisioned"
            ELSE IF with_template /\ ~found THEN "Provisioning template not found"
            ELSE IF with_template /\ ~t.is_active
            THEN "Provisioning template is inactive"
            ELSE IF final_line_profile = "" THEN "Line profile is required"
            ELSE IF final_service_profile = "" THEN "Service profile is required"
            ELSE IF final_vlan = 0 THEN "VLAN is required"
            ELSE "None"
    IN  [ok |-> error = "None", error |-> error,
         request |-> [pon_port |-> r.pon_port, onu_id |-> r.onu_id,
                      serial_number |-> r.serial_number, name |-> r.name,
                      line_profile |-> final_line_profile,
                      service_profile |-> final_service_profile,
                      vlan |-> final_vlan, service_port |-> r.service_port]]

\* an error message: a text, or the f-string of register_onu and delete_onu
Message(text) == [text |-> text, step |-> 0, detail |-> <<>>]
NoMessage == Message("None")
ErrorOf(result) == [text |-> result.error, step |-> result.step, detail |-> result.detail]

\* a register that writes the record whatever the adapter returned
register_commit_eager(rows, tmpls, r, request, result) ==
    LET onu == [ONU(r.olt_id, r.serial_number, r.pon_port, r.onu_id)
                  EXCEPT !.name = r.name, !.is_provisioned = TRUE,
                         !.status = "online"]
    IN  [onus |-> rows \cup {onu}, templates |-> tmpls,
         ret |-> IF result.success THEN [onu |-> onu, error |-> NoMessage]
                 ELSE [onu |-> NoRow, error |-> ErrorOf(result)]]

\* ONUService.register after the "with adapter:" block; result is what
\* adapter.register_onu returned
register_commit(rows, tmpls, r, request, result) ==
    IF ~result.success
    THEN [onus |-> rows, templates |-> tmpls,
          ret |-> [onu |-> NoRow, error |-> ErrorOf(result)]]
    ELSE LET existing == get_by_serial(rows, r.serial_number)
             base == IF existing # {} THEN CHOOSE o \in existing : TRUE
                     ELSE ONU(r.olt_id, r.serial_number, r.pon_port, r.onu_id)
             onu == [base EXCEPT !.name = r.name,
                                 !.line_profile = request.line_profile,
                                 !.service_profile = request.service_profile,
                                 !.vlan = request.vlan,
                                 !.service_port = r.service_port,
                                 !.template_id = r.template_id,
                                 !.is_provisioned = TRUE,
                                 !.status = "online"]
         IN  [onus |-> (rows \ {base}) \cup {onu},
              templates |-> IF r.template_id # 0
                            THEN [tmpls EXCEPT ![r.template_id].usage_count = @ + 1]
                            ELSE tmpls,
              ret |-> [onu |-> onu, error |-> NoMessage]]

\* ONUService.delete_onu after the "with adapter:" block
delete_commit(rows, tmpls, onu, result) ==
    IF ~result.success
    THEN [onus |-> rows, templates |-> tmpls,
          ret |-> [success |-> FALSE, error |-> ErrorOf(result)]]
    ELSE [onus |-> rows \ {onu}, templates |-> tmpls,
          ret |-> [success |-> TRUE, error |-> NoMessage]]

\* the operation constructs no adapter; the adapter of the previous
\* operation was local to it and is out of scope
NoAdapterOpened ==
    /\ adapter' = NoAdapter
    /\ SetSessionOf(FreshSession)
    /\ op' = "init"
    /\ args' = NoArgs
    /\ ret' = NoReturn
    /\ raised' = FALSE
    /\ cmds' = <<>>
    /\ results' = <<>>
    /\ wire' = <<>>
    /\ last_read' = NoRead
    /\ was_ready' = FALSE
    /\ svc_opened' = FALSE
    /\ UNCHANGED <<connection_type, pc, faults>>

\* the operation returns before it constructs an adapter
Refuses(value) ==
    /\ svc_ret' = value
    /\ NoAdapterOpened
    /\ UNCHANGED <<olts, onus, templates, svc_pc>>

\* "with adapter:" when __enter__ raised: connect() failed, __exit__ is not
\* called, and the except clause of the operation returns str(e)
EnterFails(fields, c, value) ==
    /\ adapter' = fields
    /\ _connected' = c.s.connected
    /\ _ssh_client' = c.s.ssh_client
    /\ _ssh_channel' = c.s.ssh_channel
    /\ _telnet_client' = c.s.telnet_client
    /\ link' = c.s.link
    /\ pending' = c.s.pending
    /\ op' = "connect"
    /\ args' = NoArgs
    /\ ret' = [success |-> FALSE, error |-> c.error]
    /\ raised' = TRUE
    /\ cmds' = <<>>
    /\ results' = <<>>
    /\ wire' = <<>>
    /\ last_read' = c.read
    /\ was_ready' = FALSE
    /\ svc_ret' = value
    /\ svc_opened' = TRUE
    /\ UNCHANGED <<connection_type, pc, olts, onus, templates, svc_pc>>

\* "with adapter:" entered, and the adapter's operation called on the list
EnterSucceeds(fields, c, service, name, a, list) ==
    /\ adapter' = fields
    /\ _connected' = c.s.connected
    /\ _ssh_client' = c.s.ssh_client
    /\ _ssh_channel' = c.s.ssh_channel
    /\ _telnet_client' = c.s.telnet_client
    /\ link' = c.s.link
    /\ pending' = c.s.pending
    /\ op' = name
    /\ args' = a
    /\ ret' = NoReturn
    /\ raised' = FALSE
    /\ cmds' = list
    /\ results' = <<>>
    /\ wire' = <<>>
    /\ last_read' = c.read
    /\ was_ready' = c.s.connected
    /\ pc' = "running"
    /\ svc_pc' = service
    /\ svc_opened' = TRUE
    /\ svc_ret' = NoCall
    /\ UNCHANGED <<connection_type, olts, onus, templates>>

\* ONUService.discover, given the outcome c of connect() and the outcome x
\* of the discovery command
discover(cls, c, x) ==
    IF c.raised
    THEN [value |-> [success |-> FALSE, onus |-> <<>>, error |-> Message(c.error)],
          s |-> c.s, op |-> "connect", raised |-> TRUE,
          ret |-> [success |-> FALSE, error |-> c.error],
          cmds |-> <<>>, results |-> <<>>, wire |-> <<>>, read |-> c.read]
    ELSE [value |-> [success |-> discover_onus(cls, x.result).success,
                     onus |-> discover_onus(cls, x.result).onus,
                     error |-> Message(discover_onus(cls, x.result).error)],
          s |-> disconnect(x.s, FALSE).s, op |-> "discover_onus", raised |-> FALSE,
          ret |-> discover_onus(cls, x.result),
          cmds |-> <<unconfigured_onu_command(cls)>>, results |-> <<x.result>>,
          wire |-> IF x.sent THEN <<unconfigured_onu_command(cls)>> ELSE <<>>,
          read |-> x.read]

\* the characters of a PON port
PortChars(pon_port) ==
    IF pon_port = "1/1/1" THEN <<"1", "/", "1", "/", "1">>
    ELSE <<"1", "/", "1", "/", "2">>

\* the outcomes tried for each read of a poll
PollOutcomes ==
    { Exit0(<<Line("iso.3.6.1", "INTEGER", PyNum(1))>>), Expired }

\* the rows in the order of the query: by ONU id on the port
RECURSIVE InOrder(_)
InOrder(rows) ==
    IF rows = {} THEN <<>>
    ELSE LET o == CHOOSE x \in rows : \A y \in rows : x.onu_id <= y.onu_id
         IN  <<o>> \o InOrder(rows \ {o})

\* one pass of the loop of refresh_onu_status: both polls of one ONU and
\* update_monitoring_data
poll(m, o, tools, outs) ==
    LET power == get_onu_optical_power(m, PortChars(o.pon_port), o.onu_id, tools,
                                       outs[1], outs[2])
        status == get_onu_status(m, PortChars(o.pon_port), o.onu_id, tools, outs[3])
    IN  [runs |-> power.runs \o status.runs,
         row |-> [o EXCEPT !.status = IF status.result = "None" THEN @
                                      ELSE status.result,
                           !.rx_power = IF power.result.rx_power.kind = "None" THEN @
                                        ELSE power.result.rx_power,
                           !.tx_power = IF power.result.tx_power.kind = "None" THEN @
                                        ELSE power.result.tx_power,
                           !.last_seen = TRUE]]

RECURSIVE JoinRuns(_)
JoinRuns(q) == IF q = <<>> THEN <<>> ELSE Head(q) \o JoinRuns(Tail(q))

\* ---------------------------------------------------- ONUService actions
InitService ==
    /\ connection_type = "telnet"
    /\ adapter = NoAdapter
    /\ args = NoArgs
    /\ _connected = FALSE
    /\ _ssh_client = FALSE
    /\ _ssh_channel = FALSE
    /\ _telnet_client = FALSE
    /\ link = "down"
    /\ pending = <<>>
    /\ pc = "idle"
    /\ op = "init"
    /\ cmds = <<>>
    /\ results = <<>>
    /\ wire = <<>>
    /\ ret = NoReturn
    /\ raised = FALSE
    /\ faults = 0
    /\ last_read = NoRead
    /\ was_ready = FALSE
    /\ InitManager
    /\ snmp_tools = Utilities
    /\ \E t \in {"zte_c300", "zte_c320"}, enabled \in BOOLEAN :
         olts = [id \in {1} |-> OLT(t, enabled)]
    /\ onus = {}
    /\ templates = [id \in {1} |-> ProvisioningTemplate("LP", "SP", 100)]
    /\ svc_pc = "idle"
    /\ svc_op = "init"
    /\ svc_args = NoCall
    /\ svc_opened = FALSE
    /\ svc_ret = NoCall

\* ONUService.discover(olt_id)
ServiceDiscover ==
    /\ pc = "idle"
    /\ svc_pc = "idle"
    /\ svc_op' = "discover"
    /\ \E olt_id \in OltIds :
        /\ svc_args' = [olt_id |-> olt_id]
        /\ IF olt_id \notin DOMAIN olts
           THEN Refuses([success |-> FALSE, onus |-> <<>>, error |-> Message("OLT not found")])
           ELSE IF ~olts[olt_id].is_enabled
           THEN Refuses([success |-> FALSE, onus |-> <<>>, error |-> Message("OLT is disabled")])
           ELSE \E a \in {get_ro_adapter(olts[olt_id]).obj.fields} :
                \E h \in HandshakeOutcomes, rx1 \in ServiceReactions :
                \E n1 \in {IF h = "ok" /\ rx1 = PlainReaction THEN 0 ELSE 1} :
                /\ faults + n1 <= MaxFaults
                /\ \E c \in {connect(FreshSession, h, rx1)} :
                   \E rx2 \in ServiceDiscoveryChoices(c.s), sendok \in SendChoices(c.s),
                      merge \in MergeChoices(c.s) :
                   \E n2 \in {IF rx2 = PlainDiscovery THEN 0 ELSE 1} :
                   /\ Budget(n1 + n2)
                   /\ \E x \in {execute_command(c.s, unconfigured_onu_command(a.cls),
                                                1, rx2, sendok, merge)} :
                      \E d \in {discover(a.cls, c, x)} :
                          /\ adapter' = a
                          /\ SetSessionOf(d.s)
                          /\ op' = d.op
                          /\ args' = NoArgs
                          /\ ret' = d.ret
                          /\ raised' = d.raised
                          /\ cmds' = d.cmds
                          /\ results' = d.results
                          /\ wire' = d.wire
                          /\ last_read' = d.read
                          /\ was_ready' = ~c.raised
                          /\ svc_ret' = d.value
                          /\ svc_opened' = TRUE
                          /\ UNCHANGED <<connection_type, pc, olts, onus, templates, svc_pc>>
    /\ UNCHANGED snmp_vars

\* ONUService.register(...) up to the call of adapter.register_onu
ServiceRegister ==
    /\ pc = "idle"
    /\ svc_pc = "idle"
    /\ svc_op' = "register"
    /\ \E r \in ServiceRequests :
        /\ svc_args' = r
        /\ r.template_id # 0 /\ r.template_id \in DOMAIN templates
              => templates[r.template_id].usage_count < MaxUsage
        /\ IF ~register_plan(r).ok
           THEN Refuses([onu |-> NoRow, error |-> Message(register_plan(r).error)])
           ELSE \E a \in {get_rw_adapter(olts[r.olt_id]).obj.fields} :
                \E h \in HandshakeOutcomes, rx \in ServiceReactions :
                /\ Budget(IF h = "ok" /\ rx = PlainReaction THEN 0 ELSE 1)
                /\ \E c \in {connect(FreshSession, h, rx)} :
                    /\ IF c.raised
                       THEN EnterFails(a, c, [onu |-> NoRow, error |-> Message(c.error)])
                       ELSE EnterSucceeds(a, c, "register", "register_onu",
                                   register_plan(r).request,
                                   register_onu_commands(a.cls, register_plan(r).request))
    /\ UNCHANGED snmp_vars

\* ONUService.delete_onu(onu_id, delete_from_olt) up to the call of
\* adapter.delete_onu; a row is identified by its serial number
ServiceDeleteOnu ==
    /\ pc = "idle"
    /\ svc_pc = "idle"
    /\ svc_op' = "delete_onu"
    /\ \E serial \in SerialNumbers, delete_from_olt \in BOOLEAN :
        /\ svc_args' = [onu_id |-> serial, delete_from_olt |-> delete_from_olt]
        /\ IF get_by_serial(onus, serial) = {}
           THEN Refuses([success |-> FALSE, error |-> Message("ONU not found")])
           ELSE \E onu \in get_by_serial(onus, serial) :
                IF ~(delete_from_olt /\ onu.is_provisioned)
                THEN /\ onus' = onus \ {onu}
                     /\ svc_ret' = [success |-> TRUE, error |-> NoMessage]
                     /\ NoAdapterOpened
                     /\ UNCHANGED <<olts, templates, svc_pc>>
                ELSE IF onu.olt_id \notin DOMAIN olts
                THEN Refuses([success |-> FALSE, error |-> Message("OLT not found")])
                ELSE IF ~olts[onu.olt_id].is_enabled
                THEN Refuses([success |-> FALSE, error |-> Message("OLT is disabled")])
                ELSE \E a \in {get_rw_adapter(olts[onu.olt_id]).obj.fields} :
                     \E h \in HandshakeOutcomes, rx \in ServiceReactions :
                     /\ Budget(IF h = "ok" /\ rx = PlainReaction THEN 0 ELSE 1)
                     /\ \E c \in {connect(FreshSession, h, rx)} :
                         /\ IF c.raised
                            THEN EnterFails(a, c, [success |-> FALSE, error |-> Message(c.error)])
                            ELSE EnterSucceeds(a, c, "delete_onu", "delete_onu",
                                        [pon_port |-> onu.pon_port, onu_id |-> onu.onu_id],
                                        delete_onu_commands(a.cls, onu.pon_port, onu.onu_id))
    /\ UNCHANGED snmp_vars

\* one iteration of the loop of execute_commands inside register_onu or
\* delete_onu called by the service
ServiceStep ==
    /\ pc = "running"
    /\ svc_pc \in {"register", "delete_onu"}
    /\ \E rx \in ServiceRxChoices(Self), sendok \in SendChoices(Self),
          merge \in MergeChoices(Self) :
         Iterate(Len(results) + 1, rx, sendok, merge)
    /\ UNCHANGED <<args, op, cmds, raised, was_ready, snmp_vars, service_vars>>

\* the end of the "with adapter:" block of register and delete_onu
\* (__exit__ disconnects), and what follows it
ServiceReturn ==
    /\ pc = "idle"
    /\ svc_pc \in {"register", "delete_onu"}
    /\ \E close_raises \in BOOLEAN : SetSession(disconnect(Self, close_raises).s)
    /\ \E out \in { IF svc_pc = "register"
                    THEN register_commit(onus, templates, svc_args, args, ret)
                    ELSE delete_commit(onus, templates,
                                       CHOOSE o \in onus :
                                           o.serial_number = svc_args.onu_id,
                                       ret) } :
         /\ onus' = out.onus
         /\ templates' = out.templates
         /\ svc_ret' = out.ret
    /\ svc_pc' = "idle"
    /\ UNCHANGED <<call_vars, olts, svc_op, svc_args, svc_opened, snmp_vars>>

\* ONUService.refresh_onu_status(olt_id)
ServiceRefreshOnuStatus ==
    /\ pc = "idle"
    /\ svc_pc = "idle"
    /\ svc_op' = "refresh_onu_status"
    /\ NoAdapterOpened
    /\ \E olt_id \in OltIds :
        /\ svc_args' = [olt_id |-> olt_id]
        /\ IF olt_id \notin DOMAIN olts \/ get_by_olt(onus, olt_id) = {}
           THEN /\ svc_ret' = [updated |-> 0, failed |-> 0]
                /\ UNCHANGED <<onus, snmp_vars>>
           ELSE IF "get_snmp_manager" \notin OLTServiceMethods
           THEN \* AttributeError, caught by the outer except clause
                /\ svc_ret' = [updated |-> 0,
                               failed |-> Cardinality(get_by_olt(onus, olt_id))]
                /\ UNCHANGED <<onus, snmp_vars>>
           ELSE \E m \in {SNMPManager(olts[olt_id].ip_address,
                                      olts[olt_id].snmp_community,
                                      olts[olt_id].snmp_port, snmp_timeout,
                                      snmp_retries)} :
                \E outs \in [get_by_olt(onus, olt_id) ->
                                PollOutcomes \X PollOutcomes \X PollOutcomes] :
                \E rows \in {InOrder(get_by_olt(onus, olt_id))} :
                    /\ manager' = m
                    /\ onus' = (onus \ get_by_olt(onus, olt_id))
                               \cup { poll(m, o, snmp_tools, outs[o]).row :
                                        o \in get_by_olt(onus, olt_id) }
                    /\ spawned' = JoinRuns([i \in 1..Len(rows) |->
                                     poll(m, rows[i], snmp_tools, outs[rows[i]]).runs])
                    /\ exits' = <<>>
                    /\ snmp_op' = "get_onu_status"
                    /\ snmp_ret' = None
                    /\ snmp_out' = <<>>
                    /\ UNCHANGED snmp_tools
                    /\ svc_ret' = [updated |-> Len(rows), failed |-> 0]
    /\ UNCHANGED <<olts, templates, svc_pc>>

NextService ==
    \/ ServiceDiscover
    \/ ServiceRegister
    \/ ServiceDeleteOnu
    \/ ServiceStep
    \/ ServiceReturn
    \/ ServiceRefreshOnuStatus

SpecService == InitService /\ [][NextService]_vars

\* ================================================================= claims
Last(q) == q[Len(q)]

SequenceOps == {"execute_commands", "register_onu", "delete_onu"}

CommandOps == SequenceOps \cup {"execute_command"}

\* C1 (as amended): execute_commands sends the commands in list order, one at
\* a time; every result but the last one is successful, so nothing is sent
\* after a failed result; there is one result per command attempted, which is
\* one per command sent plus, at most, one failed result for a command that
\* failed before it was written; the list returned is complete unless its
\* last result failed.
C1_StopOnFirstFailure ==
    op = "execute_commands" =>
        /\ Len(wire) <= Len(cmds) /\ wire = SubSeq(cmds, 1, Len(wire))
        /\ Len(results) <= Len(cmds)
        /\ \A i \in 1..(Len(results) - 1) : results[i].success
        /\ Len(wire) <= Len(results) /\ Len(results) <= Len(wire) + 1
        /\ Len(results) = Len(wire) + 1 => ~Last(results).success
        /\ pc = "idle" =>
              /\ ret = results
              /\ Len(results) = Len(cmds) \/ (results # <<>> /\ ~Last(results).success)

\* C1 as stated: exactly one result per command sent.
C1_OneResultPerCommandSent ==
    (op = "execute_commands" /\ pc = "idle") => Len(ret) = Len(wire)

\* three commands, the second one is sent and fails: two results, two sent
C1_Witness ==
    /\ op = "execute_commands" /\ pc = "idle"
    /\ Len(cmds) = 3 /\ Len(ret) = 2 /\ Len(wire) = 2
    /\ ret[1].success /\ ~ret[2].success

\* C2: in register_onu and delete_onu, after a step whose output contains
\* in-band error text no later command of the sequence is sent.
C2_HaltOnInBandError ==
    op \in {"register_onu", "delete_onu"} =>
        \A i \in 1..Len(results) :
            (results[i].success /\ _check_error_in_output(results[i].output))
                => Len(wire) <= i

\* C3: execute_command on a session that is not Ready returns a failed
\* result with an error message, does not raise, writes nothing to the
\* transport and leaves the session not Ready.
C3_NotReadyIsRejected ==
    (op = "execute_command" /\ ~was_ready) =>
        /\ ret.success = FALSE
        /\ ret.error = "Not connected to OLT"
        /\ ret.output = <<>>
        /\ wire = <<>>
        /\ ~raised
        /\ ~_connected

\* a command issued after a failed connect that left the channel open
C3_Witness ==
    /\ op = "execute_command" /\ ~was_ready
    /\ link = "up" /\ (_ssh_channel \/ _telnet_client)

\* C4: SNMPManager.set, whatever the OID, the value and the operations
\* before it, returns a failed result with the security-policy message,
\* starts no subprocess and leaves the manager as it was.
C4_SetIsBlocked ==
    snmp_op = "set" =>
        /\ snmp_ret.success = FALSE
        /\ snmp_ret.error = "SNMP SET operations are not allowed. This is a security violation."
        /\ spawned = <<>>
        /\ manager = Manager0

\* a set on a host where every utility is installed
C4_Witness == snmp_op = "set" /\ snmp_tools = Utilities /\ ~snmp_ret.success

ToolsMissing == "snmpget" \notin snmp_tools \/ "snmpwalk" \notin snmp_tools

\* the runs that found their utility and started a process
Started == SelectSeq(spawned, LAMBDA c : c.utility \in snmp_tools)

\* C5: when snmpget or snmpwalk is missing, every SNMP operation fails at
\* the tool check: no subprocess is started (not even counting the attempts
\* that find no utility), and get, walk, get_bulk and test_connection return
\* a failure.
C5_MissingToolsFailFast ==
    (ToolsMissing /\ snmp_op \in {"get", "walk", "get_bulk", "test_connection",
                                  "get_system_info", "get_onu_optical_power",
                                  "get_onu_status"})
        => /\ Started = <<>>
           /\ snmp_op \in {"get", "walk", "get_bulk", "test_connection"}
                 => ~snmp_ret.success

\* C6: a fatal I/O error on a Ready session (the device closed the
\* connection during a command) leaves the session not Ready.
C6_FailedIsAbsorbing ==
    (op \in CommandOps /\ results # <<>>
        /\ Last(results).error \in {"Connection closed by OLT", "Socket is closed",
                                    "Broken pipe"})
        => ~_connected

\* C7: connect() marks the session Ready only after its initial read saw a
\* buffer that matches a prompt pattern.
C7_ReadyOnlyAfterPrompt ==
    (op = "connect" /\ _connected) =>
        (last_read.done /\ last_read.matched /\ MatchesPrompt(last_read.buf))

\* C8: a prompt-synchronised read that ends without a prompt match makes the
\* command fail; the prompt-less buffer is never returned as a success.
C8_NoPromptIsFailure ==
    (op \in CommandOps /\ results # <<>> /\ last_read.done /\ ~last_read.matched)
        => ~Last(results).success

\* C9: disconnect() never raises and leaves the session not Ready with no
\* SSH client, SSH channel or Telnet client; a second disconnect leaves the
\* state the first one left.
C9_DisconnectIdempotent ==
    /\ op = "disconnect" =>
          /\ ~raised
          /\ ~_connected /\ ~_ssh_client /\ ~_ssh_channel /\ ~_telnet_client
    /\ \A b1 \in BOOLEAN, b2 \in BOOLEAN :
          LET once == disconnect(Self, b1)
              twice == disconnect(once.s, b2)
          IN  /\ ~once.raised /\ ~twice.raised
              /\ twice.s = once.s
              /\ ~once.s.connected /\ ~once.s.ssh_client
              /\ ~once.s.ssh_channel /\ ~once.s.telnet_client

\* disconnect of a Ready session
C9_Witness == op = "disconnect" /\ was_ready /\ ~_connected

\* C10: the output returned for a command holds nothing that was pending on
\* the transport before the command was sent.
C10_NoStaleInput ==
    op \in CommandOps =>
        \A i \in 1..Len(results) :
            \A j \in 1..Len(results[i].output) : results[i].output[j].k = i

\* the class the table maps an identifier to
MappedClass(olt_type) ==
    CASE olt_type = "zte_c300" -> "ZTEC300Adapter"
      [] olt_type = "zte_c320" -> "ZTEC320Adapter"
      [] OTHER                 -> "None"

\* everything C19 says except the timeouts
C19_Rest ==
    IF MappedClass(args.olt_type) # "None"
    THEN /\ ~raised
         /\ adapter.cls = MappedClass(args.olt_type)
         /\ ret.obj.fields = adapter
         /\ adapter.host = args.host /\ adapter.port = args.port
         /\ adapter.username = args.username
         /\ adapter.password = args.password
         /\ connection_type = LowerKind(args.connection_type)
         /\ ~_connected /\ ~_ssh_client /\ ~_ssh_channel /\ ~_telnet_client
    ELSE /\ raised
         /\ ret.obj = NoAdapter
         /\ ret.error = "Unsupported OLT type: " \o args.olt_type
                         \o ". Supported types: zte_c300, zte_c320"

\* C19 (as amended): for an identifier in the table get_zte_adapter returns a
\* new, not yet connected adapter of the mapped class, bound to the supplied
\* host, port, credentials and transport kind (lower-cased), and to each
\* supplied timeout unless that is None or 0, for which it takes the
\* configured default; for any other identifier it raises an error that
\* names the supported set and constructs no adapter.
C19_FactoryLookup ==
    op = "get_zte_adapter" =>
        /\ C19_Rest
        /\ ~raised =>
              /\ adapter.connect_timeout =
                    (IF args.connect_timeout \in {<<>>, <<0>>}
                     THEN 10 ELSE args.connect_timeout[1])
              /\ adapter.command_timeout =
                    (IF args.command_timeout \in {<<>>, <<0>>}
                     THEN 30 ELSE args.command_timeout[1])

\* C19 as stated: the adapter is bound to exactly the supplied timeouts.
C19_ExactlySuppliedTimeouts ==
    (op = "get_zte_adapter" /\ ~raised) =>
        /\ C19_Rest
        /\ args.connect_timeout # <<>> =>
              adapter.connect_timeout = args.connect_timeout[1]
        /\ args.command_timeout # <<>> =>
              adapter.command_timeout = args.command_timeout[1]

\* an unknown identifier after an adapter was built, and the adapter is intact
C19_Witness ==
    /\ op = "get_zte_adapter" /\ raised /\ args.olt_type = "huawei_ma5600"
    /\ adapter.cls = "ZTEC320Adapter" /\ adapter.connect_timeout = 5

\* out is t without the blanks and line breaks at its two ends
TrimmedOf(out, t) ==
    /\ out = <<>> \/ (out[1].w \notin Whitespace /\ Last(out).w \notin Whitespace)
    /\ \E a \in 0..Len(t), b \in 0..Len(t) :
          /\ a + b <= Len(t)
          /\ out = SubSeq(t, a + 1, Len(t) - b)
          /\ \A i \in 1..a : t[i].w \in Whitespace
          /\ \A i \in (Len(t) - b + 1)..Len(t) : t[i].w \in Whitespace

\* the command occurs in the text before the first line break
EchoInFirstLine(command, t) ==
    \E i \in 1..Len(t) :
        /\ t[i].w = command
        /\ \A j \in 1..(i - 1) : t[j].w # "\n"

\* the text after the first line break (nothing when there is none)
BelowFirstLine(t) ==
    IF \E i \in 1..Len(t) : t[i].w = "\n"
    THEN LET i == CHOOSE n \in 1..Len(t) :
                      t[n].w = "\n" /\ \A j \in 1..(n - 1) : t[j].w # "\n"
         IN  SubSeq(t, i + 1, Len(t))
    ELSE <<>>

\* C11: the output of a successful command is the captured text, trimmed at
\* its two ends, without its first line when that line holds the command
\* sent, and whole when it does not; the lines kept are in their order.
C11_EchoStripped ==
    (op \in CommandOps /\ results # <<>> /\ Last(results).success /\ last_read.done)
        => LET command == cmds[Len(results)]
               captured == last_read.buf
           IN  TrimmedOf(Last(results).output,
                         IF EchoInFirstLine(command, captured)
                         THEN BelowFirstLine(captured) ELSE captured)

\* a first answer without echo, returned whole, then an answer that opens
\* with the echo, returned without it
C11_Witness ==
    /\ op = "execute_commands" /\ Len(results) = 2 /\ Last(results).success
    /\ Words(results[1].output) = <<"Error", "#">>
    /\ EchoInFirstLine(cmds[2], last_read.buf)
    /\ Words(results[2].output) = <<"ok", "#">>

ProvisioningOps == {"register_onu", "delete_onu"}

\* one of the six keywords, in any case the device writes it in
HasKeyword(output) ==
    \E j \in 1..Len(output) :
        output[j].w \in {"error", "Error", "ERROR", "invalid", "Invalid",
                         "failed", "Failed", "not found", "Not found",
                         "does not exist", "Does not exist",
                         "unknown command", "Unknown command"}

\* C12: register_onu and delete_onu return success if and only if every
\* command of the synthesized sequence has a result with success=true whose
\* output holds none of the keywords; then every command was sent.
C12_SuccessIffClean ==
    (op \in ProvisioningOps /\ pc = "idle") =>
        /\ ret.success <=>
              /\ Len(results) = Len(cmds)
              /\ \A i \in 1..Len(results) :
                    results[i].success /\ ~HasKeyword(results[i].output)
        /\ ret.success => wire = cmds

\* every command was executed with success, one output holds "Error", and
\* the operation reports failure
C12_Witness ==
    /\ op = "register_onu" /\ pc = "idle" /\ ~ret.success
    /\ Len(results) = Len(cmds)
    /\ \A i \in 1..Len(results) : results[i].success
    /\ \E i \in 1..Len(results) : Words(results[i].output) = <<"Error", "#">>

StepFails(i) == ~results[i].success \/ HasKeyword(results[i].output)

RegisterSequence(serial_number) ==
    CASE serial_number = "ZTEGC1234567" ->
           << "configure terminal",
              "interface gpon-olt_1/1/2",
              "onu 5 type auto sn ZTEGC1234567",
              "exit",
              "interface gpon-onu_1/1/2:5",
              "name Jl._Merdeka_17_Blok_C_rumah_no_1",
              "tcont 1 profile LP",
              "gemport 1 tcont 1",
              "switchport mode trunk vport 1",
              "service-port 1 vport 1 user-vlan 100 vlan 100",
              "exit",
              "exit" >>
      [] serial_number = "HWTC00000001" ->
           << "configure terminal",
              "interface gpon-olt_1/1/1",
              "onu 1 type auto sn HWTC00000001",
              "exit",
              "interface gpon-onu_1/1/1:1",
              "tcont 1 profile LP",
              "gemport 1 tcont 1",
              "switchport mode trunk vport 1",
              "service-port 1 vport 1 user-vlan 200 vlan 200",
              "exit",
              "exit" >>

C15_DeleteSequence ==
    op = "delete_onu" =>
        /\ cmds = (CASE args.pon_port = "1/1/2" /\ args.onu_id = 5 ->
                        << "configure terminal", "interface gpon-olt_1/1/2",
                           "no onu 5", "exit", "exit" >>
                     [] args.pon_port = "1/1/1" /\ args.onu_id = 1 ->
                        << "configure terminal", "interface gpon-olt_1/1/1",
                           "no onu 1", "exit", "exit" >>)
        /\ Len(wire) <= Len(cmds) /\ wire = SubSeq(cmds, 1, Len(wire))
        /\ (pc = "idle" /\ ret.success) => wire = cmds

\* a delete that ran to its end
C15_Witness ==
    /\ op = "delete_onu" /\ pc = "idle" /\ ret.success
    /\ Len(wire) = 5 /\ wire[3] = "no onu 5"

\* the pieces of ws between the occurrences of sep
RECURSIVE SplitAt(_, _)
SplitAt(ws, sep) ==
    IF \E i \in 1..Len(ws) : ws[i] = sep
    THEN LET i == CHOOSE n \in 1..Len(ws) :
                      ws[n] = sep /\ \A j \in 1..(n - 1) : ws[j] # sep
         IN  <<SubSeq(ws, 1, i - 1)>> \o SplitAt(SubSeq(ws, i + 1, Len(ws)), sep)
    ELSE <<ws>>

\* the columns of one line
FieldsOf(line) ==
    LET parts == SelectSeq(SplitAt(line, " "), LAMBDA q : q # <<>>)
    IN  [n \in 1..Len(parts) |-> Join(parts[n])]

\* the lines of a text, each as its columns
Rows(ws) == LET lines == SplitAt(ws, "\n") IN [n \in 1..Len(lines) |-> FieldsOf(lines[n])]

IndexWords == {"gpon-onu_1/1/1:1", "gpon-onu_1/1/2:05"}

\* the rows that list an ONU
EntryRows(ws) == SelectSeq(Rows(ws), LAMBDA f : \E n \in 1..Len(f) : f[n] \in IndexWords)

\* well-formed discovery text: a row that lists an ONU has three columns,
\* the index, the serial number and the state
WellFormed(ws) ==
    \A r \in 1..Len(EntryRows(ws)) :
        LET f == EntryRows(ws)[r]
        IN  Len(f) = 3 /\ f[1] \in IndexWords
            /\ f[2] \notin IndexWords /\ f[3] \notin IndexWords

\* the ONU a well-formed row describes
OnuOfRow(cls, f) ==
    [pon_port |-> IF f[1] = "gpon-onu_1/1/1:1" THEN "1/1/1" ELSE "1/1/2",
     onu_id |-> IF f[1] = "gpon-onu_1/1/1:1" THEN 1 ELSE 5,
     serial_number |-> f[2],
     onu_type |-> CASE f[2] = "ZTEGC1234567" -> "ZTE GPON"
                    [] f[2] = "HWTC00000001" -> "Huawei"
                    [] f[2] = "znts00000002" ->
                         IF cls = "ZTEC320Adapter" THEN "ZTE Smart" ELSE "Unknown"
                    [] OTHER -> "Unknown",
     status |-> f[3]]

\* C16: on well-formed discovery text discover_onus returns one ONU per row
\* that lists one, in the order of the rows, with the port, the integer id,
\* the serial number and the state of that row and the type of the serial
\* prefix; the list is determined by the text (and the adapter class).
C16_OnePerMatchingLine ==
    (op = "discover_onus" /\ results[1].success
        /\ WellFormed(Words(results[1].output)))
        => LET rows == EntryRows(Words(results[1].output))
           IN  /\ ret.success
               /\ ret.onus = [n \in 1..Len(rows) |-> OnuOfRow(adapter.cls, rows[n])]

\* two rows, two ONUs; the second has the id 5 read from "05", and the C320
\* class knows its prefix
C16_Witness ==
    /\ op = "discover_onus" /\ ret.success /\ Len(ret.onus) = 2
    /\ ret.onus[1].serial_number = "ZTEGC1234567" /\ ret.onus[1].status = "initial"
    /\ ret.onus[2].onu_id = 5 /\ ret.onus[2].onu_type = "ZTE Smart"

\* the text holds the header of the listing or a row that lists an ONU
Understood(ws) == \E i \in 1..Len(ws) : ws[i] = "OnuIndex" \/ ws[i] \in IndexWords

\* C17: discover_onus returns (false, [], the command's error) and does not
\* parse when the discovery command failed; when the command succeeded and
\* the text is not understood it returns a failure with a parse error.
C17_FailureCausesApart ==
    op = "discover_onus" =>
        /\ ~results[1].success =>
              /\ ~ret.success /\ ret.onus = <<>> /\ ~ret.parsed
              /\ ret.error = results[1].error
        /\ (results[1].success /\ ~Understood(Words(results[1].output))) =>
              /\ ~ret.success
              /\ ret.error \notin {"None", results[1].error}

\* C18 (as amended): test_connection never raises and leaves the session
\* not Ready with no transport handle; it sends at most one command, the
\* version query: none when connect failed, and the query whenever it
\* reports success; it returns success if and only if connect succeeded and
\* the command's result was successful.
C18_TestConnectionCloses ==
    op = "test_connection" =>
        /\ ~raised
        /\ ~_connected /\ ~_ssh_client /\ ~_ssh_channel /\ ~_telnet_client
        /\ wire \in {<<>>, <<"show version">>}
        /\ results = <<>> => wire = <<>>
        /\ ret.success <=> (Len(results) = 1 /\ results[1].success)
        /\ ret.success => (wire = <<"show version">> /\ ret.error = "None")

\* C18 as stated: exactly one command is sent on every path.
C18_ExactlyOneCommand ==
    op = "test_connection" =>
        /\ ~raised
        /\ ~_connected /\ ~_ssh_client /\ ~_ssh_channel /\ ~_telnet_client
        /\ wire = <<"show version">>
        /\ ret.success <=> (Len(results) = 1 /\ results[1].success)

\* the SSH login is refused: no command, a failure, and the client closed
C18_Witness ==
    /\ op = "test_connection" /\ connection_type = "ssh"
    /\ results = <<>> /\ wire = <<>> /\ ~ret.success
    /\ ret.error = "Failed to connect to OLT: Authentication failed"
    /\ ~_ssh_client

\* the utility printed net-snmp's text for a missing object or instance
HasMarker(output) ==
    \E i \in 1..Len(output) :
        output[i].val.s \in {"No Such Object available on this agent at this OID",
                             "No Such Instance currently exists at this OID",
                             "noSuchObject", "noSuchInstance"}

\* C20: a get, walk or get_bulk whose utility output holds a 'no such'
\* marker returns the not-found failure, not a value.
C20_NoSuchIsNotFound ==
    (snmp_op \in {"get", "walk", "get_bulk"} /\ HasMarker(snmp_out)) =>
        /\ ~snmp_ret.success
        /\ snmp_ret.error = "OID not found"

\* the subprocess ended with exit status 0
Succeeded(e) == e.kind = "exit" /\ e.returncode = 0

\* the positional OID argument of a utility run
OidOf(cmd) == Last(cmd.args)

\* C21: get_bulk starts snmpbulkget first.  When that utility is missing or
\* its run fails (non-zero exit, timeout), snmpwalk is run on the same OID and
\* get_bulk returns exactly what walk returns for it; when the bulk run
\* succeeds, snmpwalk is not run and the (oid, value) pairs of its output are
\* returned in output order.
C21_BulkFallsBackToWalk ==
    snmp_op = "get_bulk" =>
        /\ Len(spawned) >= 1
        /\ spawned[1].utility = "snmpbulkget"
        /\ IF Succeeded(exits[1])
           THEN /\ Len(spawned) = 1
                /\ snmp_ret.success
                /\ Len(snmp_ret.value) = Len(exits[1].stdout)
                /\ \A i \in 1..Len(exits[1].stdout) :
                     /\ snmp_ret.value[i][1] = exits[1].stdout[i].oid
                     /\ snmp_ret.value[i][2] = _parse_snmp_value(exits[1].stdout[i])
           ELSE /\ Len(spawned) = 2
                /\ spawned[2].utility = "snmpwalk"
                /\ OidOf(spawned[2]) = OidOf(spawned[1])
                /\ snmp_ret = walk(manager, OidOf(spawned[1]), snmp_tools, exits[2]).result

\* the bulk utility is not installed and the walk it fell back to listed
\* two objects
C21_Witness ==
    /\ snmp_op = "get_bulk"
    /\ exits[1] = Missing
    /\ Len(spawned) = 2
    /\ snmp_ret.success
    /\ Len(snmp_ret.value) = 2

\* what one direction's read is to yield: the integer the device reported,
\* in tenths of a dBm, over 10; absent when the get failed or the value is
\* not a number
Dbm(e) ==
    IF Succeeded(e) /\ e.stdout # <<>> /\ e.stdout[1].val.kind = "num"
    THEN [kind |-> "float", num |-> e.stdout[1].val.n, den |-> 10]
    ELSE [kind |-> "None", num |-> 0, den |-> 1]

\* C22: get_onu_optical_power reads rx and then tx, whatever the rx read
\* gave, and returns for each direction the device's integer divided by 10
\* (-250 gives -25.0), absent when that direction's get failed or its value
\* is not numeric.
C22_TenthsOfDbm ==
    snmp_op = "get_onu_optical_power" =>
        /\ Len(spawned) = 2
        /\ snmp_ret.rx_power = Dbm(exits[1])
        /\ snmp_ret.tx_power = Dbm(exits[2])

\* C23: when the discovery command's result is a success whose output holds
\* an error keyword, discover_onus reports failure.
C23_DiscoveryScansForErrors ==
    (/\ op = "discover_onus"
     /\ results[1].success
     /\ HasKeyword(results[1].output)) => ~ret.success

OtherVariant(cls) ==
    IF cls = "ZTEC300Adapter" THEN "ZTEC320Adapter" ELSE "ZTEC300Adapter"

PrefixesOf(cls) == { type_map(cls)[n][1] : n \in 1..Len(type_map(cls)) }

\* the serial number's prefix is in one variant's table only
InOneTableOnly(serial_number) ==
    \E cls \in {"ZTEC300Adapter", "ZTEC320Adapter"} :
        UpperPrefix(serial_number) \in PrefixesOf(cls) \ PrefixesOf(OtherVariant(cls))

\* C25: on the same input the other variant issues the same discovery
\* command, generates the same register sequence and the same delete
\* sequence, and parses the same text into the same list, the onu_type of a
\* serial number whose prefix only one table holds excepted.
C25_VariantsInterchangeable ==
    LET other == OtherVariant(adapter.cls)
    IN  /\ op = "get_unconfigured_onu_command" =>
              cmds = <<unconfigured_onu_command(other)>>
        /\ op = "get_register_onu_commands" =>
              cmds = register_onu_commands(other, args)
        /\ op = "get_delete_onu_commands" =>
              cmds = delete_onu_commands(other, args.pon_port, args.onu_id)
        /\ op = "parse_unconfigured_onus" =>
              LET mine == ret.onus
                  theirs == parse_unconfigured_onus(other, args.output)
              IN  /\ Len(mine) = Len(theirs)
                  /\ \A i \in 1..Len(mine) :
                       /\ mine[i].pon_port = theirs[i].pon_port
                       /\ mine[i].onu_id = theirs[i].onu_id
                       /\ mine[i].serial_number = theirs[i].serial_number
                       /\ mine[i].status = theirs[i].status
                       /\ \/ mine[i].onu_type = theirs[i].onu_type
                          \/ InOneTableOnly(mine[i].serial_number)

\* the C320 variant parsed the listing of two ONUs, one of them with a
\* prefix only its table holds
C25_Witness ==
    /\ op = "parse_unconfigured_onus"
    /\ adapter.cls = "ZTEC320Adapter"
    /\ Len(ret.onus) = 2
    /\ ret.onus[1].onu_type = "ZTE GPON"
    /\ ret.onus[2].onu_type = "ZTE Smart"

\* the command enters a CLI mode
Enters(c) ==
    \/ c = "configure terminal"
    \/ \E p \in {"1/1/1", "1/1/2"} :
          \/ c = "interface gpon-olt_" \o p
          \/ \E id \in {1, 5} : c = "interface gpon-onu_" \o p \o ":" \o ToString(id)

\* the mode level after the first n commands of the list, the root being 0
RECURSIVE Depth(_, _)
Depth(list, n) ==
    IF n = 0 THEN 0
    ELSE Depth(list, n - 1)
         + (IF Enters(list[n]) THEN 1 ELSE IF list[n] = "exit" THEN -1 ELSE 0)

SynthesisOps == {"get_register_onu_commands", "get_delete_onu_commands"}

\* C28: in every register and delete sequence the mode level stays between
\* 0 and 2 after every prefix and is 0 at the end; an operation that reports
\* success has sent the whole sequence.
C28_ModeNestingBalanced ==
    /\ op \in SynthesisOps \cup ProvisioningOps =>
          /\ \A n \in 0..Len(cmds) : Depth(cmds, n) \in 0..2
          /\ Depth(cmds, Len(cmds)) = 0
    /\ (op \in ProvisioningOps /\ pc = "idle" /\ ret.success) =>
          /\ wire = cmds
          /\ Depth(wire, Len(wire)) = 0

\* register_onu of the C320 variant returned success after a sequence of
\* twelve commands that is at level 2 after its fifth
C28_Witness ==
    /\ op = "register_onu"
    /\ pc = "idle"
    /\ ret.success
    /\ adapter.cls = "ZTEC320Adapter"
    /\ Len(cmds) = 12
    /\ Depth(cmds, 5) = 2
    /\ wire = cmds

Range(q) == { q[i] : i \in 1..Len(q) }

C27_NoEarlierResponse ==
    op \in SequenceOps =>
        \A i \in 1..Len(results) :
            \A j \in 1..Len(results[i].output) :
                results[i].output[j].k \notin 1..(i - 1)

\* the operations of ONUService that open an adapter
AdapterOps == {"discover", "register", "delete_onu"}

\* C24: whenever discover, register or delete_onu of the service returns
\* after it opened an adapter, that adapter is not Ready and holds no open
\* transport handle.
C24_AdapterClosedOnReturn ==
    (svc_pc = "idle" /\ svc_op \in AdapterOps /\ svc_opened) =>
        /\ ~_connected
        /\ ~_ssh_client
        /\ ~_ssh_channel
        /\ ~_telnet_client

\* the ONU records of the OLT named in the call of refresh_onu_status
Polled == get_by_olt(onus, svc_args.olt_id)

\* the subprocess runs contain a query of this OID
Queried(oid) == \E i \in 1..Len(spawned) : OidOf(spawned[i]) = oid

\* C26: refresh_onu_status for an existing OLT with ONU records queries
\* power and status of every ONU of the OLT, stores what it obtained, and
\* returns counts that add up to the number of ONUs, an ONU counting as
\* updated only if it was polled.
C26_RefreshPollsEveryOnu ==
    (svc_pc = "idle" /\ svc_op = "refresh_onu_status"
       /\ svc_args.olt_id \in DOMAIN olts /\ Polled # {}) =>
        /\ svc_ret.updated + svc_ret.failed = Cardinality(Polled)
        /\ \A o \in Polled :
              /\ Queried(OnuOid(ONU_RX_POWER_BASE, PortChars(o.pon_port), o.onu_id))
              /\ Queried(OnuOid(ONU_TX_POWER_BASE, PortChars(o.pon_port), o.onu_id))
              /\ Queried(OnuOid(ONU_STATUS_BASE, PortChars(o.pon_port), o.onu_id))
        /\ svc_ret.updated = Cardinality({ o \in Polled : o.last_seen })

\* register or delete_onu has returned after its adapter failed: connect
\* raised, or register_onu or delete_onu of the adapter returned failure
ReturnedAfterDeviceFailure ==
    /\ svc_pc = "idle"
    /\ svc_op \in {"register", "delete_onu"}
    /\ svc_opened
    /\ raised \/ ~ret.success

\* C29: a step in which register or delete_onu returns after the adapter
\* failed leaves the ONU records and the template usage counts as they were.
C29_TablesChangeOnlyAfterSuccess ==
    [][ReturnedAfterDeviceFailure' => (onus' = onus /\ templates' = templates)]_vars

\* delete_onu returned the device's failure and the provisioned record is
\* still in the table
C29_Witness ==
    /\ ReturnedAfterDeviceFailure
    /\ svc_op = "delete_onu"
    /\ ~raised
    /\ wire # <<>>
    /\ \E o \in onus : o.serial_number = svc_args.onu_id /\ o.is_provisioned

====
